---- MODULE Spec2Model ----
(***************************************************************************)
(* A model of the allocators of the repository.  The NUMA allocator         *)
(* (numa_allocator/numa_alloc.c) is modelled over a byte-addressed sparse    *)
(* memory: block headers and free-list links are stored in memory as the     *)
(* code stores them (little endian), thread caches hold head pointers only.  *)
(* memalloc (numa_allocator/quick_test.c) and the arena allocator            *)
(* (unnamed/part_003) share the memory and the mappings with it.             *)
(***************************************************************************)
EXTENDS Integers, Sequences, FiniteSets, TLC

VARIABLES
    g_initialized,  \* numa_alloc.c:70
    g_topology,     \* numa_alloc.c:68   <<>> is NULL, <<rec>> a topology
    g_node_pools,   \* numa_alloc.c:69   [0..MAX_NUMA_NODES-1 -> <<>> | <<pool>>]
    my_arena,       \* numa_alloc.c:73   per thread: <<>> is NULL, <<arena>>
    mem,            \* the bytes of memory that are not zero: address -> 1..255
    maps,           \* live virtual-memory mappings: set of [base, len]
    pc,             \* per thread: where it stands inside slow_path_alloc
    frame,          \* per thread: the public call in progress and its locals
    held,           \* the client's live blocks: set of [ptr, req, n, by]
    last,           \* the call that just returned: its caller, arguments and result
    crashed,        \* the process took a fatal signal
    tally,          \* per thread: allocations that gave a block, frees that took one
    migrated,       \* blocks that were freed by a thread other than their allocator
    head,           \* quick_test.c:141  memalloc: first block header of the list
    tail,           \* quick_test.c:141  memalloc: last block header of the list
    malloc_initialized, \* quick_test.c:144
    hdr,            \* memalloc: the header_t at each block address: [size, is_free, next]
    mlive,          \* the client's live memalloc blocks: set of [ptr, n]
    global_malloc_lock, \* quick_test.c:142  [inits, owner]: times initialised, thread inside
    mcall,          \* per thread: its memalloc call in progress, and the blocks it holds
    announced,      \* numa_alloc.c:298  nodes reported on stderr as exhausted
    allocator,      \* part_003: <<>> is no arena, <<rec>> the arena_allocator_t
    slots,          \* the arena slots handed out since the last reset or restore
    marked,         \* the arena as it was when the client read its position
    made            \* the allocations the arena has served since it was created

memallocVars == <<head, tail, malloc_initialized, hdr, mlive, global_malloc_lock, mcall>>

arenaVars == <<allocator, slots, marked, made>>

vars == <<g_initialized, g_topology, g_node_pools, my_arena, mem, maps,
          pc, frame, held, last, crashed, tally, migrated, memallocVars,
          announced, arenaVars>>

----------------------------------------------------------------------------
(* Bounds of the model *)

NumThreads == 2
MaxAllocs == 2
MaxHeld == 2
MaxArenaAllocs == 3
NumSlots == 4
SizeBits == 24

(* Program constants *)

MAX_NUMA_NODES == 8
SIZE_CLASSES == 8
REFILL_BATCH_SIZE == 64
HUGE_PAGE_SIZE == 2097152
HEADER_SIZE == 16
PAGE_SIZE == 4096
PATTERN == 170

SIZE_CLASS_SIZES == <<16, 32, 64, 128, 256, 512, 1024, 2048>>

Threads == 1..NumThreads
NULL == 0

(* size_t arithmetic: unsigned, SizeBits wide *)
SizeMod == 2^SizeBits
SIZE_MAX == SizeMod - 1
AddSz(a, b) == (a + b) % SizeMod
MulSz(a, b) == (a * b) % SizeMod

----------------------------------------------------------------------------
(* Byte-addressed memory *)

Pow256(k) == IF k = 0 THEN 1 ELSE IF k = 1 THEN 256 ELSE IF k = 2 THEN 65536 ELSE 16777216

\* byte k of the little-endian image of v (two's complement below zero)
ByteOf(v, k) == IF k >= 4 THEN (IF v < 0 THEN 255 ELSE 0) ELSE (v \div Pow256(k)) % 256

RdB(m, a) == IF a \in DOMAIN m THEN m[a] ELSE 0

\* an unsigned word (size_t, pointer) at a; the model's values fit four bytes
LoadWord(m, a) ==
    RdB(m, a) + 256 * RdB(m, a + 1) + 65536 * RdB(m, a + 2) + 16777216 * (RdB(m, a + 3) % 128)

\* a signed int at a
LoadInt(m, a) ==
    LET b3 == RdB(m, a + 3)
    IN  RdB(m, a) + 256 * RdB(m, a + 1) + 65536 * RdB(m, a + 2)
          + 16777216 * (IF b3 >= 128 THEN b3 - 256 ELSE b3)

\* m with the bytes of upd (address -> 0..255) stored
Store(m, upd) ==
    [a \in {c \in DOMAIN m \cup DOMAIN upd : c \in DOMAIN upd => upd[c] # 0} |->
        IF a \in DOMAIN upd THEN upd[a] ELSE m[a]]

\* memset(p, 0, len)
MemsetZero(m, p, len) ==
    LET keep == {a \in DOMAIN m : ~(a >= p /\ a < p + len)}
    IN  [a \in keep |-> m[a]]

\* memcpy(dst, src, len), the ranges do not overlap
Memcpy(m, dst, src, len) ==
    LET from == {a \in DOMAIN m : a >= src /\ a < src + len}
        keep == {a \in DOMAIN m : ~(a >= dst /\ a < dst + len)}
        put  == {a - src + dst : a \in from}
    IN  [a \in keep \cup put |-> IF a \in put THEN m[a - dst + src] ELSE m[a]]

----------------------------------------------------------------------------
(* Virtual memory: mmap / munmap / numa_alloc_onnode *)

SlotSize == 2 * SizeMod
SlotBase(k) == k * SlotSize
PageRound(len) == ((len + PAGE_SIZE - 1) \div PAGE_SIZE) * PAGE_SIZE

SlotFree(mp, k) == \A r \in mp : r.base \div SlotSize # k
FreeSlots(mp) == {k \in 1..NumSlots : SlotFree(mp, k)}

\* the address a new mapping of len bytes gets: 0 when the kernel refuses
\* (len = 0 is EINVAL), first fit otherwise
PickBase(mp, len) ==
    IF len = 0 \/ FreeSlots(mp) = {} THEN 0
    ELSE SlotBase(CHOOSE k \in FreeSlots(mp) : \A j \in FreeSlots(mp) : k <= j)

\* the kernel maps whole pages
MapAt(mp, base, len) == mp \cup {[base |-> base, len |-> PageRound(len)]}

\* munmap(base, len): the pages of [base, base+len) go away
Unmapped(r, base, len) == r.base >= base /\ r.base < base + PageRound(len)
Munmap(mp, base, len) == {r \in mp : ~Unmapped(r, base, len)}
MunmapMem(m, mp, base, len) ==
    LET gone == {r \in mp : Unmapped(r, base, len)}
        keep == {a \in DOMAIN m : \A r \in gone : ~(a >= r.base /\ a < r.base + r.len)}
    IN  [a \in keep |-> m[a]]

Mapped(mp, a) == \E r \in mp : a >= r.base /\ a < r.base + r.len
RangeMapped(mp, a, len) == \E r \in mp : a >= r.base /\ a + len <= r.base + r.len

----------------------------------------------------------------------------
(* Topology, node pools, thread arenas *)

\* what sched_getcpu() may answer: an error, a CPU, an index past the table
CpuAnswers == {-1, 0, 1, 2}

get_current_numa_node(topo, cpu) ==
    IF topo = <<>> THEN 0
    ELSE IF cpu < 0 \/ cpu >= topo[1].num_cpus THEN 0
    ELSE topo[1].cpu_to_node_map[cpu + 1]

NoPools == [i \in 0..(MAX_NUMA_NODES - 1) |-> <<>>]

\* create_node_pool: base 0 stands for a failed numa_alloc_onnode / mmap
create_node_pool(node_id, size, base) ==
    IF base = 0 THEN <<>>
    ELSE << [node_id |-> node_id, base_addr |-> base, total_size |-> size,
             used |-> 0, lock |-> 0] >>

EmptyLists == [i \in 0..(SIZE_CLASSES - 1) |-> NULL]

create_arena(node) ==
    [numa_node |-> node, free_lists |-> EmptyLists, stats_allocs |-> 0, stats_frees |-> 0]

\* cur is my_arena of the calling thread; calloc_ok is whether calloc gave memory
\* a cache that follows its thread to the node it runs on now
RehomedArena(cur, topo, cpu, calloc_ok) ==
    IF cur # <<>> THEN << [cur[1] EXCEPT !.numa_node = get_current_numa_node(topo, cpu)] >>
    ELSE IF calloc_ok THEN << create_arena(get_current_numa_node(topo, cpu)) >>
    ELSE <<>>

get_or_create_arena(cur, topo, cpu, calloc_ok) ==
    IF cur # <<>> THEN cur
    ELSE IF calloc_ok THEN << create_arena(get_current_numa_node(topo, cpu)) >>
    ELSE <<>>

SizeClassSize(i) == SIZE_CLASS_SIZES[i + 1]

\* a lookup that compares with < where the code has <=
StrictClassFrom(size, i) ==
    LET fit == {j \in i..(SIZE_CLASSES - 1) : size < SIZE_CLASS_SIZES[j + 1]}
    IN  IF fit = {} THEN -1 ELSE CHOOSE j \in fit : \A k \in fit : j <= k

RECURSIVE SizeClassFrom(_, _)
SizeClassFrom(size, i) ==
    IF i >= SIZE_CLASSES THEN -1
    ELSE IF size <= SizeClassSize(i) THEN i
    ELSE SizeClassFrom(size, i + 1)

\* a lookup that stops at the first class
FirstClassOnly(size) == IF size <= SIZE_CLASS_SIZES[SIZE_CLASSES] THEN 0 ELSE -1

get_size_class(size) == SizeClassFrom(size, 0)

----------------------------------------------------------------------------
(* Block headers *)

HeaderBytes(base, size, size_class, numa_node) ==
    [a \in base..(base + HEADER_SIZE - 1) |->
        LET j == a - base
        IN  IF j < 8 THEN ByteOf(size, j)
            ELSE IF j < 12 THEN ByteOf(size_class, j - 8)
            ELSE ByteOf(numa_node, j - 12)]

HeaderOf(ptr) == ptr - HEADER_SIZE
HdrSize(m, ptr) == LoadWord(m, HeaderOf(ptr))
HdrClass(m, ptr) == LoadInt(m, HeaderOf(ptr) + 8)
HdrNode(m, ptr) == LoadInt(m, HeaderOf(ptr) + 12)

----------------------------------------------------------------------------
(* Large blocks *)

LargeTotalSize(size) == AddSz(size, HEADER_SIZE)

LargeAlignedSize(total_size) ==
    IF total_size >= HUGE_PAGE_SIZE
    THEN (AddSz(total_size, HUGE_PAGE_SIZE - 1) \div HUGE_PAGE_SIZE) * HUGE_PAGE_SIZE
    ELSE total_size

LargeHeaderSize(aligned_size) == aligned_size

\* mmap_ok: whether the kernel grants the mapping (after the huge-page fallback)
allocate_large_block(m, mp, numa_node, size, mmap_ok) ==
    LET aligned_size == LargeAlignedSize(LargeTotalSize(size))
        base == IF mmap_ok THEN PickBase(mp, aligned_size) ELSE 0
    IN  IF base = 0 THEN [ptr |-> NULL, m |-> m, mp |-> mp]
        ELSE [ptr |-> base + HEADER_SIZE,
              m   |-> Store(MemsetZero(m, base, aligned_size),
                            HeaderBytes(base, LargeHeaderSize(aligned_size), -1, numa_node)),
              mp  |-> MapAt(mp, base, aligned_size)]

\* a free that keeps the mapping of a large block
LargeBlockLeaked(m, mp, ptr) == [m |-> m, mp |-> mp]

free_large_block(m, mp, ptr) ==
    LET base == HeaderOf(ptr)
        size == HdrSize(m, ptr)
    IN  [m |-> MunmapMem(m, mp, base, size), mp |-> Munmap(mp, base, size)]

----------------------------------------------------------------------------
(* Slow path: batch refill from the node pool *)

BlockStride(size_class) == SizeClassSize(size_class) + HEADER_SIZE
BatchBytes(size_class) == BlockStride(size_class) * REFILL_BATCH_SIZE

\* a refill that does not look at what is left of the pool
NeverExhausted(used, total_needed, total_size) == FALSE

PoolExhausted(used, total_needed, total_size) == used + total_needed > total_size

\* a refill that does not wait for the pool mutex
LockIgnored(pool) == TRUE

LockAvailable(pool) == pool.lock = 0

\* an unlock that leaves the mutex taken
LeftLocked(pool) == [pool EXCEPT !.lock = -1]

\* pthread_mutex_unlock(&pool->lock) of the exhausted outcome
Unlocked(pool) == [pool EXCEPT !.lock = 0]

\* a carving loop that tags every block with class 0
CarvedAsClassZero(size_class) == 0

CarvedClass(size_class) == size_class

\* the headers and links written by the carving loop
CarveBytes(batch_start, size_class, numa_node) ==
    LET stride == BlockStride(size_class)
        cells  == {batch_start + i * stride + j :
                      i \in 0..(REFILL_BATCH_SIZE - 1), j \in 0..(HEADER_SIZE + 7)}
    IN  [a \in cells |->
            LET i == (a - batch_start) \div stride
                j == (a - batch_start) % stride
            IN  IF j < HEADER_SIZE
                THEN HeaderBytes(batch_start + i * stride, SizeClassSize(size_class),
                                 CarvedClass(size_class), numa_node)[a]
                ELSE ByteOf(IF i = 0 THEN NULL
                            ELSE batch_start + (i - 1) * stride + HEADER_SIZE,
                            j - HEADER_SIZE)]

\* the last block carved is the head of the list
CarveFirst(batch_start, size_class) == batch_start + HEADER_SIZE

CarveHead(batch_start, size_class) ==
    batch_start + (REFILL_BATCH_SIZE - 1) * BlockStride(size_class) + HEADER_SIZE

----------------------------------------------------------------------------
(* numalloc_free *)

\* ar is my_arena of the calling thread; the result carries its new value
\* a free that forgets the block
FreeDropsBlock(m, mp, ar, topo, ptr, cpu, calloc_ok) == [m |-> m, mp |-> mp, ar |-> ar]

numalloc_free(m, mp, ar, topo, ptr, cpu, calloc_ok) ==
    IF ptr = NULL THEN [m |-> m, mp |-> mp, ar |-> ar]
    ELSE LET size_class == HdrClass(m, ptr)
         IN  IF size_class < 0
             THEN LET r == free_large_block(m, mp, ptr)
                  IN  [m |-> r.m, mp |-> r.mp, ar |-> ar]
             ELSE LET arena == get_or_create_arena(ar, topo, cpu, calloc_ok)
                  IN  IF arena = <<>> THEN [m |-> m, mp |-> mp, ar |-> ar]
                      ELSE [m  |-> Store(m, [a \in ptr..(ptr + 7) |->
                                               ByteOf(arena[1].free_lists[size_class], a - ptr)]),
                            mp |-> mp,
                            ar |-> << [arena[1] EXCEPT
                                         !.free_lists[size_class] = ptr,
                                         !.stats_frees = @ + 1] >>]

----------------------------------------------------------------------------
(* The calls in progress and the client's view *)

NoSnap == [k \in {} |-> 0]

NoFrame == [fn |-> "none", size |-> 0, cls |-> 0, ptr |-> NULL, old |-> 0,
            a |-> 0, b |-> 0, bs |-> NULL, cap |-> 0, snap |-> NoSnap]

\* no memalloc call in progress, no block held
NoCall == [pc |-> "idle", fn |-> "none", size |-> 0, block |-> NULL, header |-> NULL,
           ret |-> NULL, got |-> {}]

NoLast == [t |-> 0, fn |-> "none", a |-> 0, b |-> 0, ret |-> 0, old |-> 0,
           cap |-> 0, snap |-> NoSnap]

HeldRec(ptr, req, n, by) == [ptr |-> ptr, req |-> req, n |-> n, by |-> by]

LastOf(t, fr, ret) == [t |-> t, fn |-> fr.fn, a |-> fr.a, b |-> fr.b, ret |-> ret,
                       old |-> fr.old, cap |-> fr.cap, snap |-> fr.snap]

\* the bytes of [p, p+len) that are not zero, by offset
Contents(m, p, len) ==
    [k \in {a - p : a \in {x \in DOMAIN m : x >= p /\ x < p + len}} |-> m[p + k]]

\* blocks the client may pass to a call: live, and in no call in progress
Usable(h) == \A u \in Threads : frame[u].ptr # h.ptr

RECURSIVE AllocsUpTo(_)
AllocsUpTo(t) == IF t = 0 THEN 0 ELSE tally[t].allocs + AllocsUpTo(t - 1)

\* the clients make MaxAllocs allocations in all and hold MaxHeld blocks at
\* a time, counting the allocations in progress
InFlight == {u \in Threads : pc[u] # "idle"}
CanAlloc == AllocsUpTo(NumThreads) + Cardinality(InFlight) < MaxAllocs
RoomToHold == Cardinality(held) + Cardinality(InFlight) < MaxHeld /\ CanAlloc

\* the caller takes the result of the call that returned before anything
\* else happens
Quiet == last.fn = "none" /\ ~crashed

Ready(t) == pc[t] = "idle" /\ Quiet

Init ==
    /\ g_initialized = 0
    /\ g_topology = <<>>
    /\ g_node_pools = NoPools
    /\ my_arena = [t \in Threads |-> <<>>]
    /\ mem = [a \in {} |-> 0]
    /\ maps = {}
    /\ pc = [t \in Threads |-> "idle"]
    /\ frame = [t \in Threads |-> NoFrame]
    /\ held = {}
    /\ last = NoLast
    /\ crashed = FALSE
    /\ tally = [t \in Threads |-> [allocs |-> 0, frees |-> 0]]
    /\ migrated = {}
    /\ head = NULL
    /\ tail = NULL
    /\ malloc_initialized = 0
    /\ hdr = [a \in {} |-> [size |-> 0, is_free |-> 0, next |-> 0]]
    /\ mlive = {}
    /\ global_malloc_lock = [inits |-> 0, owner |-> 0]
    /\ mcall = [t \in Threads |-> NoCall]
    /\ announced = {}
    /\ allocator = <<>>
    /\ slots = {}
    /\ marked = <<>>
    /\ made = 0

----------------------------------------------------------------------------
(* numalloc_init *)

\* pools 0..n-1 are created in turn; the first failure stops the loop.
\* grant is the number of pools the platform is willing to give.
RECURSIVE InitPools(_, _, _, _, _, _, _)
InitPools(i, n, grant, size, pools, mp, m) ==
    IF i >= n THEN [ok |-> TRUE, pools |-> pools, mp |-> mp, m |-> m]
    ELSE LET base == IF i < grant THEN PickBase(mp, size) ELSE 0
             pool == create_node_pool(i, size, base)
         IN  IF pool = <<>>
             THEN [ok |-> FALSE, pools |-> [pools EXCEPT ![i] = <<>>], mp |-> mp, m |-> m]
             ELSE InitPools(i + 1, n, grant, size, [pools EXCEPT ![i] = pool],
                            MapAt(mp, base, size), MemsetZero(m, base, size))

\* an init that does not look at the initialised flag
InitNeverRefused == FALSE

InitRefused == g_initialized # 0

NumallocInit(t, size, topo, grant) ==
    /\ Ready(t)
    /\ LET fr == [NoFrame EXCEPT !.fn = "init", !.a = size]
       IN  IF InitRefused
           THEN /\ last' = LastOf(t, fr, -1)
                /\ UNCHANGED <<g_initialized, g_topology, g_node_pools, maps, mem>>
           ELSE IF topo = <<>>
           THEN /\ g_topology' = <<>>
                /\ last' = LastOf(t, fr, -1)
                /\ UNCHANGED <<g_initialized, g_node_pools, maps, mem>>
           ELSE LET r == InitPools(0, topo[1].num_nodes, grant, size, g_node_pools, maps, mem)
                IN  /\ g_topology' = topo
                    /\ g_node_pools' = r.pools
                    /\ maps' = r.mp
                    /\ mem' = r.m
                    /\ g_initialized' = IF r.ok THEN 1 ELSE g_initialized
                    /\ last' = LastOf(t, fr, IF r.ok THEN 0 ELSE -1)
    /\ UNCHANGED <<arenaVars, announced, memallocVars, my_arena, pc, frame, held, crashed, tally, migrated>>

----------------------------------------------------------------------------
(* Completion of the numalloc call a public call makes *)

\* a calloc that leaves the block as it got it
NoZeroing(m, ptr, total) == m

CallocZero(m, ptr, total) == MemsetZero(m, ptr, total)

\* a realloc that forgets to copy
NoCopy(m, mp, new_ptr, ptr, old_size, junk) == m

\* memcpy(new_ptr, ptr, old_size) may read past the end of the old mapping:
\* the bytes past the end are whatever the neighbouring pages hold (junk)
ReallocCopy(m, mp, new_ptr, ptr, old_size, junk) ==
    LET ends == {r.base + r.len : r \in {x \in mp : ptr >= x.base /\ ptr < x.base + x.len}}
        end  == IF ends = {} THEN ptr ELSE CHOOSE e \in ends : TRUE
        past == IF ptr + old_size > end THEN (end - ptr)..(old_size - 1) ELSE {}
    IN  Store(Memcpy(m, new_ptr, ptr, old_size), [a \in {new_ptr + k : k \in past} |-> junk])

\* what reading past the old mapping can do: -1 is a fatal signal,
\* otherwise the value of the bytes read
OverreadOutcomes(mp, ptr, old_size) ==
    IF RangeMapped(mp, ptr, old_size) THEN {0} ELSE {-1, 0, PATTERN}

ReallocGrows(fr) == fr.fn = "realloc" /\ fr.ptr # NULL

\* the state a public call leaves when its numalloc returned ptr, with
\* memory m, mappings mp and the caller's arena ar
\* a realloc that releases the old block although no new one was obtained
FreeOldAnyway(fr, m, mp, ar) ==
    IF ReallocGrows(fr)
    THEN LET f == numalloc_free(m, mp, ar, g_topology, fr.ptr, 0, TRUE)
         IN  [m |-> f.m, mp |-> f.mp, ar |-> f.ar, ret |-> NULL,
              held |-> {h \in held : h.ptr # fr.ptr}, allocs |-> 0, frees |-> 1]
    ELSE [m |-> m, mp |-> mp, ar |-> ar, ret |-> NULL, held |-> held,
          allocs |-> 0, frees |-> 0]

\* no block was obtained: the call returns NULL and touches nothing else
\* (numalloc_realloc: if (new_ptr) { ... } return new_ptr;)
KeepOld(fr, m, mp, ar) ==
    [m |-> m, mp |-> mp, ar |-> ar, ret |-> NULL, held |-> held,
     allocs |-> 0, frees |-> 0]

FinishResult(t, fr, ptr, m, mp, ar, junk) ==
    IF ptr = NULL \/ junk = -1
    THEN KeepOld(fr, m, mp, ar)
    ELSE IF fr.fn = "calloc"
    THEN [m |-> CallocZero(m, ptr, fr.size), mp |-> mp, ar |-> ar, ret |-> ptr,
          held |-> held \cup {HeldRec(ptr, fr.size, fr.size, t)},
          allocs |-> 1, frees |-> 0]
    ELSE IF ReallocGrows(fr)
    THEN LET copied == ReallocCopy(m, mp, ptr, fr.ptr, fr.old, junk)
             f == numalloc_free(copied, mp, ar, g_topology, fr.ptr, 0, TRUE)
         IN  [m |-> f.m, mp |-> f.mp, ar |-> f.ar, ret |-> ptr,
              held |-> {h \in held : h.ptr # fr.ptr} \cup {HeldRec(ptr, fr.size, fr.size, t)},
              allocs |-> 1, frees |-> 1]
    ELSE [m |-> m, mp |-> mp, ar |-> ar, ret |-> ptr,
          held |-> held \cup {HeldRec(ptr, fr.size, fr.size, t)},
          allocs |-> 1, frees |-> 0]

Finish(t, fr, ptr, m, mp, ar) ==
    \E junk \in (IF ptr # NULL /\ ReallocGrows(fr)
                 THEN OverreadOutcomes(mp, fr.ptr, fr.old) ELSE {0}) :
        \E r \in {FinishResult(t, fr, ptr, m, mp, ar, junk)} :
            /\ mem' = r.m
            /\ maps' = r.mp
            /\ my_arena' = [my_arena EXCEPT ![t] = r.ar]
            /\ held' = r.held
            /\ last' = IF junk = -1 THEN last ELSE LastOf(t, fr, r.ret)
            /\ tally' = [tally EXCEPT ![t].allocs = @ + r.allocs, ![t].frees = @ + r.frees]
            /\ crashed' = (junk = -1)
            /\ pc' = [pc EXCEPT ![t] = "idle"]
            /\ frame' = [frame EXCEPT ![t] = NoFrame]
            /\ UNCHANGED migrated

----------------------------------------------------------------------------
(* numalloc: everything up to the pool mutex *)

CountAlloc(arena) == [arena EXCEPT !.stats_allocs = @ + 1]

\* a numalloc that does not look at the initialised flag
AlwaysInitialised(flag) == FALSE

Uninitialised(flag) == flag = 0

\* block->next is read from an address that is not mapped
Fault(t) ==
    /\ crashed' = TRUE
    /\ UNCHANGED <<mem, maps, my_arena, held, last, tally, pc, frame, migrated>>

\* a pop that hands out the block under the top one
PopsSecond(m, arena, size_class) ==
    LET top == arena.free_lists[size_class]
        under == LoadWord(m, top)
    IN  [ptr |-> IF under # NULL THEN under ELSE top,
         ar  |-> CountAlloc([arena EXCEPT !.free_lists[size_class] = LoadWord(m, top)])]

FastPop(m, arena, size_class) ==
    [ptr |-> arena.free_lists[size_class],
     ar  |-> CountAlloc([arena EXCEPT
                 !.free_lists[size_class] = LoadWord(m, arena.free_lists[size_class])])]

Begin(t, fr) ==
    \E cpu \in (IF my_arena[t] = <<>> THEN CpuAnswers ELSE {0}),
       calloc_ok \in (IF my_arena[t] = <<>> THEN BOOLEAN ELSE {TRUE}),
       mmap_ok \in (IF get_size_class(fr.size) < 0 THEN BOOLEAN ELSE {TRUE}) :
        IF fr.size = 0 \/ Uninitialised(g_initialized)
        THEN Finish(t, fr, NULL, mem, maps, my_arena[t])
        ELSE LET arena == get_or_create_arena(my_arena[t], g_topology, cpu, calloc_ok)
                 size_class == get_size_class(fr.size)
             IN  IF arena = <<>>
                 THEN Finish(t, fr, NULL, mem, maps, arena)
                 ELSE IF /\ size_class >= 0
                         /\ arena[1].free_lists[size_class] # NULL
                         /\ ~RangeMapped(maps, arena[1].free_lists[size_class], 8)
                 THEN Fault(t)
                 ELSE IF size_class >= 0 /\ arena[1].free_lists[size_class] # NULL
                 THEN LET f == FastPop(mem, arena[1], size_class)
                      IN  Finish(t, fr, f.ptr, mem, maps, <<f.ar>>)
                 ELSE IF size_class < 0
                 THEN LET r == allocate_large_block(mem, maps, arena[1].numa_node,
                                                    fr.size, mmap_ok)
                      IN  Finish(t, fr, r.ptr, r.m, r.mp,
                                 IF r.ptr # NULL THEN <<CountAlloc(arena[1])>> ELSE arena)
                 ELSE IF arena[1].numa_node \notin DOMAIN g_node_pools
                 THEN \* g_node_pools[n] read outside the table: the word found
                      \* there is null, or it is not a pool and the lock faults
                      \E stray \in BOOLEAN :
                          IF stray THEN Fault(t)
                          ELSE Finish(t, fr, NULL, mem, maps, arena)
                 ELSE IF g_node_pools[arena[1].numa_node] = <<>>
                 THEN Finish(t, fr, NULL, mem, maps, arena)
                 ELSE /\ pc' = [pc EXCEPT ![t] = "lock"]
                      /\ frame' = [frame EXCEPT ![t] = [fr EXCEPT !.cls = size_class]]
                      /\ my_arena' = [my_arena EXCEPT ![t] = arena]
                      /\ UNCHANGED <<mem, maps, held, last, tally, crashed, migrated>>

Numalloc(t, size) ==
    /\ Ready(t)
    /\ RoomToHold
    /\ Begin(t, [NoFrame EXCEPT !.fn = "numalloc", !.size = size, !.a = size])
    /\ UNCHANGED <<arenaVars, announced, memallocVars, g_initialized, g_topology, g_node_pools>>

----------------------------------------------------------------------------
(* slow_path_alloc: the three steps of a refill *)

\* a refill that goes to the pool of node 0 whatever the cache's home is
FirstPool(arena) == 0

\* the pool a cache refills from: g_node_pools[arena->numa_node]
PoolOf(arena) == arena.numa_node

SlowLock(t) ==
    /\ pc[t] = "lock"
    /\ Quiet
    /\ LET node == PoolOf(my_arena[t][1])
           pool == g_node_pools[node][1]
       IN  /\ LockAvailable(pool)
           /\ IF PoolExhausted(pool.used, BatchBytes(frame[t].cls), pool.total_size)
              THEN /\ Finish(t, frame[t], NULL, mem, maps, my_arena[t])
                   /\ announced' = announced \cup {node}
                   /\ g_node_pools' = [g_node_pools EXCEPT ![node] = <<Unlocked(pool)>>]
              ELSE /\ g_node_pools' = [g_node_pools EXCEPT ![node] = <<[pool EXCEPT !.lock = t]>>]
                   /\ frame' = [frame EXCEPT ![t].bs = pool.base_addr + pool.used]
                   /\ pc' = [pc EXCEPT ![t] = "locked"]
                   /\ UNCHANGED <<my_arena, mem, maps, held, last, tally, crashed, migrated,
                                  announced>>
    /\ UNCHANGED <<arenaVars, memallocVars, g_initialized, g_topology>>

\* a refill that returns with the mutex taken
BumpKeepsLock(pool, total_needed) == [pool EXCEPT !.used = @ + total_needed]

\* pool->used += total_needed; pthread_mutex_unlock(&pool->lock);
BumpAndUnlock(pool, total_needed) == [pool EXCEPT !.used = @ + total_needed, !.lock = 0]

SlowBump(t) ==
    /\ pc[t] = "locked"
    /\ Quiet
    /\ LET node == PoolOf(my_arena[t][1])
           pool == g_node_pools[node][1]
       IN  g_node_pools' = [g_node_pools EXCEPT ![node] =
               <<BumpAndUnlock(pool, BatchBytes(frame[t].cls))>>]
    /\ pc' = [pc EXCEPT ![t] = "carve"]
    /\ UNCHANGED <<arenaVars, announced, memallocVars, g_initialized, g_topology, my_arena, mem, maps, frame, held, last,
                   crashed, tally, migrated>>

SlowCarve(t) ==
    /\ pc[t] = "carve"
    /\ Quiet
    /\ \E carved \in {CarveBytes(frame[t].bs, frame[t].cls, my_arena[t][1].numa_node)} :
       \E m \in {Store(mem, carved)} :
         LET arena == my_arena[t][1]
             cls   == frame[t].cls
             result == CarveHead(frame[t].bs, cls)
             ar    == CountAlloc([arena EXCEPT !.free_lists[cls] = LoadWord(m, result)])
         IN  Finish(t, frame[t], result, m, maps, <<ar>>)
    /\ UNCHANGED <<arenaVars, announced, memallocVars, g_initialized, g_topology, g_node_pools>>

----------------------------------------------------------------------------
(* numalloc as one call: what a call that no other thread interleaves with   *)
(* returns and leaves, for the relations between whole calls                  *)

\* slow_path_alloc for a small class; the pool mutex is free
slow_path_alloc(m, pools, arena, size_class) ==
    IF pools[arena.numa_node] = <<>>
    THEN [ptr |-> NULL, m |-> m, pools |-> pools, ar |-> arena]
    ELSE LET pool == pools[arena.numa_node][1]
         IN  IF PoolExhausted(pool.used, BatchBytes(size_class), pool.total_size)
             THEN [ptr |-> NULL, m |-> m, pools |-> pools, ar |-> arena]
             ELSE LET batch_start == pool.base_addr + pool.used
                      carved == Store(m, CarveBytes(batch_start, size_class, arena.numa_node))
                      result == CarveHead(batch_start, size_class)
                  IN  [ptr   |-> result,
                       m     |-> carved,
                       pools |-> [pools EXCEPT ![arena.numa_node] =
                                    <<[pool EXCEPT !.used = @ + BatchBytes(size_class)]>>],
                       ar    |-> [arena EXCEPT
                                    !.free_lists[size_class] = LoadWord(carved, result)]]

numalloc(m, mp, pools, flag, cur, topo, size, cpu, calloc_ok, mmap_ok) ==
    IF size = 0 \/ Uninitialised(flag)
    THEN [ptr |-> NULL, m |-> m, mp |-> mp, pools |-> pools, ar |-> cur]
    ELSE LET arena == get_or_create_arena(cur, topo, cpu, calloc_ok)
             size_class == get_size_class(size)
         IN  IF arena = <<>>
             THEN [ptr |-> NULL, m |-> m, mp |-> mp, pools |-> pools, ar |-> arena]
             ELSE IF size_class >= 0 /\ arena[1].free_lists[size_class] # NULL
             THEN LET f == FastPop(m, arena[1], size_class)
                  IN  [ptr |-> f.ptr, m |-> m, mp |-> mp, pools |-> pools, ar |-> <<f.ar>>]
             ELSE IF size_class < 0
             THEN LET r == allocate_large_block(m, mp, arena[1].numa_node, size, mmap_ok)
                  IN  [ptr |-> r.ptr, m |-> r.m, mp |-> r.mp, pools |-> pools,
                       ar |-> IF r.ptr # NULL THEN <<CountAlloc(arena[1])>> ELSE arena]
             ELSE LET r == slow_path_alloc(m, pools, arena[1], size_class)
                  IN  [ptr |-> r.ptr, m |-> r.m, mp |-> mp, pools |-> r.pools,
                       ar |-> IF r.ptr # NULL THEN <<CountAlloc(r.ar)>> ELSE arena]

----------------------------------------------------------------------------
(* numalloc_free, numalloc_calloc, numalloc_realloc, numalloc_get_thread_stats *)

\* whether the free took the block: a large block is unmapped, a small one
\* needs the caller's arena
FreeTook(m, ptr, ar) == HdrClass(m, ptr) < 0 \/ ar # <<>>

NumallocFree(t, h) ==
    /\ Ready(t)
    /\ h \in held
    /\ Usable(h)
    /\ \E cpu \in (IF my_arena[t] = <<>> THEN CpuAnswers ELSE {0}),
          calloc_ok \in (IF my_arena[t] = <<>> THEN BOOLEAN ELSE {TRUE}) :
          LET r  == numalloc_free(mem, maps, my_arena[t], g_topology, h.ptr, cpu, calloc_ok)
              fr == [NoFrame EXCEPT !.fn = "free", !.a = h.ptr, !.b = h.req]
          IN  /\ mem' = r.m
              /\ maps' = r.mp
              /\ my_arena' = [my_arena EXCEPT ![t] = r.ar]
              /\ last' = LastOf(t, fr, 0)
              /\ tally' = [tally EXCEPT ![t].frees =
                              IF FreeTook(mem, h.ptr, r.ar) THEN @ + 1 ELSE @]
    /\ held' = held \ {h}
    /\ migrated' = IF h.by # t THEN migrated \cup {h.ptr} ELSE migrated
    /\ UNCHANGED <<arenaVars, announced, memallocVars, g_initialized, g_topology, g_node_pools, pc, frame, crashed>>

\* a calloc without the overflow check
NoOverflowCheck(num, size, total) == FALSE

CallocRejects(num, size, total) == size # total \div num

NumallocCalloc(t, num, size) ==
    /\ Ready(t)
    /\ RoomToHold
    /\ LET total == MulSz(num, size)
           fr == [NoFrame EXCEPT !.fn = "calloc", !.a = num, !.b = size]
       IN  IF num = 0 \/ size = 0
           THEN /\ last' = LastOf(t, fr, NULL)
                /\ UNCHANGED <<my_arena, mem, maps, pc, frame, held, crashed, tally, migrated>>
           ELSE IF CallocRejects(num, size, total)
           THEN /\ last' = LastOf(t, fr, NULL)
                /\ UNCHANGED <<my_arena, mem, maps, pc, frame, held, crashed, tally, migrated>>
           ELSE Begin(t, [fr EXCEPT !.size = total])
    /\ UNCHANGED <<arenaVars, announced, memallocVars, g_initialized, g_topology, g_node_pools>>

\* the old size realloc reads from the header
ReallocOldSize(m, ptr) ==
    IF HdrClass(m, ptr) >= 0 THEN SizeClassSize(HdrClass(m, ptr)) ELSE HdrSize(m, ptr)

\* the bytes of a block the caller can use: the class size, or what the
\* header's size leaves after the header
Capacity(m, ptr) ==
    IF HdrClass(m, ptr) >= 0 THEN SizeClassSize(HdrClass(m, ptr))
    ELSE HdrSize(m, ptr) - HEADER_SIZE

\* realloc(NULL, size)
NumallocReallocNull(t, size) ==
    /\ Ready(t)
    /\ RoomToHold
    /\ Begin(t, [NoFrame EXCEPT !.fn = "realloc", !.size = size, !.a = NULL, !.b = size])
    /\ UNCHANGED <<arenaVars, announced, memallocVars, g_initialized, g_topology, g_node_pools>>

\* a realloc(ptr, 0) that returns NULL and keeps the block
ReallocZeroKeeps(m, mp, ar, topo, ptr) == [m |-> m, mp |-> mp, ar |-> ar]

\* realloc(ptr, 0): numalloc_free(ptr); the caller has an arena
ReallocZero(m, mp, ar, topo, ptr) == numalloc_free(m, mp, ar, topo, ptr, 0, TRUE)

\* realloc(ptr, size) of a live block
NumallocRealloc(t, h, size) ==
    /\ Ready(t)
    /\ h \in held
    /\ h.by = t
    /\ Usable(h)
    /\ LET old_size == ReallocOldSize(mem, h.ptr)
           fr == [NoFrame EXCEPT !.fn = "realloc", !.ptr = h.ptr, !.size = size,
                                 !.a = h.ptr, !.b = size, !.old = old_size,
                                 !.cap = Capacity(mem, h.ptr),
                                 !.snap = Contents(mem, h.ptr, Capacity(mem, h.ptr))]
       IN  IF size = 0
           THEN LET r == ReallocZero(mem, maps, my_arena[t], g_topology, h.ptr)
                IN  /\ mem' = r.m
                    /\ maps' = r.mp
                    /\ my_arena' = [my_arena EXCEPT ![t] = r.ar]
                    /\ held' = held \ {h}
                    /\ last' = LastOf(t, fr, NULL)
                    /\ tally' = [tally EXCEPT ![t].frees = @ + 1]
                    /\ UNCHANGED <<pc, frame, crashed, migrated>>
           ELSE IF size <= old_size
           THEN /\ held' = (held \ {h}) \cup {HeldRec(h.ptr, h.req, size, h.by)}
                /\ last' = LastOf(t, fr, h.ptr)
                /\ UNCHANGED <<my_arena, mem, maps, pc, frame, crashed, tally, migrated>>
           ELSE CanAlloc /\ Begin(t, fr)
    /\ UNCHANGED <<arenaVars, announced, memallocVars, g_initialized, g_topology, g_node_pools>>

\* get_size_class(size) on its own, as numalloc calls it
ClassLookup(t, size) ==
    /\ Ready(t)
    /\ last' = LastOf(t, [NoFrame EXCEPT !.fn = "get_size_class", !.a = size],
                      get_size_class(size))
    /\ UNCHANGED <<arenaVars, announced, memallocVars, g_initialized, g_topology, g_node_pools,
                   my_arena, mem, maps, pc, frame, held, crashed, tally, migrated>>

GetThreadStats(t) ==
    /\ Ready(t)
    /\ LET fr == [NoFrame EXCEPT !.fn = "stats",
                     !.a = IF my_arena[t] # <<>> THEN my_arena[t][1].stats_allocs ELSE 0,
                     !.b = IF my_arena[t] # <<>> THEN my_arena[t][1].stats_frees ELSE 0]
       IN  last' = LastOf(t, fr, 0)
    /\ UNCHANGED <<arenaVars, announced, memallocVars, g_initialized, g_topology, g_node_pools, my_arena, mem, maps, pc, frame,
                   held, crashed, tally, migrated>>

\* the pools cleanup unmaps: those of the nodes of the topology
RECURSIVE CleanupPools(_, _, _, _, _)
CleanupPools(i, n, pools, mp, m) ==
    IF i >= n THEN [pools |-> pools, mp |-> mp, m |-> m]
    ELSE IF pools[i] = <<>> THEN CleanupPools(i + 1, n, pools, mp, m)
    ELSE CleanupPools(i + 1, n, [pools EXCEPT ![i] = <<>>],
                      Munmap(mp, pools[i][1].base_addr, pools[i][1].total_size),
                      MunmapMem(m, mp, pools[i][1].base_addr, pools[i][1].total_size))

\* numalloc_cleanup, called when no call is in progress and the caller has
\* given back every block; the thread arenas are not touched
NumallocCleanup(t) ==
    /\ Ready(t)
    /\ \A u \in Threads : pc[u] = "idle"
    /\ held = {}
    /\ IF g_initialized = 0
       THEN UNCHANGED <<g_initialized, g_topology, g_node_pools, maps, mem>>
       ELSE LET r == CleanupPools(0, g_topology[1].num_nodes, g_node_pools, maps, mem)
            IN  /\ g_node_pools' = r.pools
                /\ maps' = r.mp
                /\ mem' = r.m
                /\ g_topology' = <<>>
                /\ g_initialized' = 0
    /\ last' = LastOf(t, [NoFrame EXCEPT !.fn = "cleanup"], 0)
    /\ UNCHANGED <<arenaVars, announced, memallocVars, my_arena, pc, frame, held, crashed, tally, migrated>>

----------------------------------------------------------------------------
(* memalloc (quick_test.c:124-257): a list of blocks, one VirtualAlloc each.  *)
(* The calls run under global_malloc_lock, one at a time.                     *)

MEM_HEADER_SIZE == 24

numaVars == <<g_initialized, g_topology, g_node_pools, my_arena, pc, frame, held,
              tally, migrated, announced>>

\* a search that finds no block to use again
NeverFits(h, curr, size) == NULL

\* the first block in list order that is free and large enough, or NULL
RECURSIVE get_free_block(_, _, _)
get_free_block(h, curr, size) ==
    IF curr = NULL THEN NULL
    ELSE IF h[curr].is_free = 1 /\ h[curr].size >= size THEN curr
    ELSE get_free_block(h, h[curr].next, size)

MemResult(ret, hd, tl, h, m, mp) ==
    [ret |-> ret, head |-> hd, tail |-> tl, hdr |-> h, m |-> m, mp |-> mp]

\* malloc after get_free_block has answered header: the block found is
\* taken, or a new one is mapped and appended; valloc_ok is whether
\* VirtualAlloc gives memory
TakeOrAppend(hd, tl, h, m, mp, size, header, valloc_ok) ==
    IF header # NULL
    THEN MemResult(header + MEM_HEADER_SIZE, hd, tl,
                   [h EXCEPT ![header].is_free = 0], m, mp)
    ELSE LET total_size == AddSz(MEM_HEADER_SIZE, size)
             block == IF valloc_ok THEN PickBase(mp, total_size) ELSE NULL
             fresh == [size |-> size, is_free |-> 0, next |-> NULL]
         IN  IF block = NULL THEN MemResult(NULL, hd, tl, h, m, mp)
             ELSE MemResult(block + MEM_HEADER_SIZE,
                            IF hd = NULL THEN block ELSE hd,
                            block,
                            [a \in DOMAIN h \cup {block} |->
                                IF a = block THEN fresh
                                ELSE IF a = tl THEN [h[a] EXCEPT !.next = block]
                                ELSE h[a]],
                            MemsetZero(m, block, PageRound(total_size)),
                            MapAt(mp, block, total_size))

\* malloc(size)
malloc(hd, tl, h, m, mp, size, valloc_ok) ==
    IF size = 0 THEN MemResult(NULL, hd, tl, h, m, mp)
    ELSE TakeOrAppend(hd, tl, h, m, mp, size, get_free_block(h, hd, size), valloc_ok)

\* a search that finds no block before the tail
NoPredecessor(h, tmp, tl) == NULL

\* the block before the tail
RECURSIVE TailPredecessor(_, _, _)
TailPredecessor(h, tmp, tl) ==
    IF tmp = NULL THEN NULL
    ELSE IF h[tmp].next = tl THEN tmp
    ELSE TailPredecessor(h, h[tmp].next, tl)

\* free(block) of a live block
free(hd, tl, h, m, mp, block) ==
    IF block = NULL THEN MemResult(NULL, hd, tl, h, m, mp)
    ELSE LET header == block - MEM_HEADER_SIZE
             rest   == [a \in DOMAIN h \ {header} |-> h[a]]
             len    == AddSz(MEM_HEADER_SIZE, h[header].size)
         IN  IF header = tl
             THEN IF hd = tl
                  THEN MemResult(NULL, NULL, NULL, rest,
                                 MunmapMem(m, mp, header, len), Munmap(mp, header, len))
                  ELSE LET tmp == TailPredecessor(h, hd, tl)
                       IN  MemResult(NULL, hd, IF tmp = NULL THEN tl ELSE tmp,
                                     IF tmp = NULL THEN rest
                                     ELSE [rest EXCEPT ![tmp].next = NULL],
                                     MunmapMem(m, mp, header, len), Munmap(mp, header, len))
             ELSE MemResult(NULL, hd, tl, [h EXCEPT ![header].is_free = 1], m, mp)

\* calloc(num, nsize)
calloc(hd, tl, h, m, mp, num, nsize, valloc_ok) ==
    IF num = 0 \/ nsize = 0 THEN MemResult(NULL, hd, tl, h, m, mp)
    ELSE LET size == MulSz(num, nsize)
         IN  IF CallocRejects(num, nsize, size) THEN MemResult(NULL, hd, tl, h, m, mp)
             ELSE LET r == malloc(hd, tl, h, m, mp, size, valloc_ok)
                  IN  IF r.ret = NULL THEN r
                      ELSE [r EXCEPT !.m = MemsetZero(r.m, r.ret, size)]

MemLast(t, fn, a, b, ret) == [NoLast EXCEPT !.t = t, !.fn = fn, !.a = a, !.b = b, !.ret = ret]

MemApply(r) ==
    /\ head' = r.head
    /\ tail' = r.tail
    /\ hdr' = r.hdr
    /\ mem' = r.m
    /\ maps' = r.mp

MemMalloc(t, size) ==
    /\ Ready(t)
    /\ \E valloc_ok \in BOOLEAN :
          LET r == malloc(head, tail, hdr, mem, maps, size, valloc_ok)
          IN  /\ MemApply(r)
              /\ mlive' = IF r.ret = NULL THEN mlive ELSE mlive \cup {[ptr |-> r.ret, n |-> size]}
              /\ last' = MemLast(t, "memalloc.malloc", size, 0, r.ret)
    /\ malloc_initialized' = 1
    /\ UNCHANGED <<arenaVars, numaVars, crashed, global_malloc_lock, mcall>>

MemFree(t, b) ==
    /\ Ready(t)
    /\ b \in mlive
    /\ MemApply(free(head, tail, hdr, mem, maps, b.ptr))
    /\ mlive' = mlive \ {b}
    /\ last' = MemLast(t, "memalloc.free", b.ptr, 0, 0)
    /\ malloc_initialized' = 1
    /\ UNCHANGED <<arenaVars, numaVars, crashed, global_malloc_lock, mcall>>

MemCalloc(t, num, nsize) ==
    /\ Ready(t)
    /\ \E valloc_ok \in BOOLEAN :
          LET r == calloc(head, tail, hdr, mem, maps, num, nsize, valloc_ok)
          IN  /\ MemApply(r)
              /\ mlive' = IF r.ret = NULL THEN mlive
                          ELSE mlive \cup {[ptr |-> r.ret, n |-> MulSz(num, nsize)]}
              /\ last' = MemLast(t, "memalloc.calloc", num, nsize, r.ret)
              /\ malloc_initialized' =
                    IF num = 0 \/ nsize = 0 \/ CallocRejects(num, nsize, MulSz(num, nsize))
                    THEN malloc_initialized ELSE 1
    /\ UNCHANGED <<arenaVars, numaVars, crashed, global_malloc_lock, mcall>>

----------------------------------------------------------------------------
(* memalloc called by several threads: the steps of malloc and free         *)
(* between which another thread can run.  The test of malloc_initialized   *)
(* is made outside the lock, twice: by the caller and by initialize_malloc. *)

\* the thread is between EnterCriticalSection and LeaveCriticalSection
InCritical(t) == mcall[t].pc \in {"find", "take", "body", "leave"}

\* after the lock is known to be initialised: malloc(0) returns NULL
Initialised(c) ==
    IF c.fn = "malloc" /\ c.size = 0
    THEN [c EXCEPT !.pc = "idle", !.fn = "none"]
    ELSE [c EXCEPT !.pc = "enter"]

MemUnchanged == UNCHANGED <<numaVars, arenaVars, last, mlive>>

\* malloc(size): if (!malloc_initialized) initialize_malloc();
MallocEntry(t, size) ==
    /\ ~crashed
    /\ mcall[t].pc = "idle"
    /\ Cardinality(mcall[t].got) < MaxHeld
    /\ LET c == [mcall[t] EXCEPT !.fn = "malloc", !.size = size, !.header = NULL, !.ret = NULL]
       IN  mcall' = [mcall EXCEPT ![t] = IF malloc_initialized = 0
                                         THEN [c EXCEPT !.pc = "check"]
                                         ELSE Initialised(c)]
    /\ UNCHANGED <<head, tail, hdr, mem, maps, malloc_initialized, global_malloc_lock, crashed>>
    /\ MemUnchanged

\* free(block) of a block the thread holds
FreeEntry(t, block) ==
    /\ ~crashed
    /\ mcall[t].pc = "idle"
    /\ block \in mcall[t].got
    /\ LET c == [mcall[t] EXCEPT !.fn = "free", !.block = block, !.got = @ \ {block}]
       IN  mcall' = [mcall EXCEPT ![t] = IF malloc_initialized = 0
                                         THEN [c EXCEPT !.pc = "check"]
                                         ELSE Initialised(c)]
    /\ UNCHANGED <<head, tail, hdr, mem, maps, malloc_initialized, global_malloc_lock, crashed>>
    /\ MemUnchanged

\* initialize_malloc: if (!malloc_initialized)
InitCheck(t) ==
    /\ ~crashed
    /\ mcall[t].pc = "check"
    /\ mcall' = [mcall EXCEPT ![t] = IF malloc_initialized = 0
                                      THEN [@ EXCEPT !.pc = "init"]
                                      ELSE Initialised(@)]
    /\ UNCHANGED <<head, tail, hdr, mem, maps, malloc_initialized, global_malloc_lock, crashed>>
    /\ MemUnchanged

\* InitializeCriticalSection(&global_malloc_lock).  On a critical section
\* that is initialised already the behaviour is undefined: the lock comes
\* out unowned, or as it was.
InitLock(t) ==
    /\ ~crashed
    /\ mcall[t].pc = "init"
    /\ \E owner \in {0, global_malloc_lock.owner} :
          global_malloc_lock' = [inits |-> global_malloc_lock.inits + 1, owner |-> owner]
    /\ mcall' = [mcall EXCEPT ![t].pc = "flag"]
    /\ UNCHANGED <<head, tail, hdr, mem, maps, malloc_initialized, crashed>>
    /\ MemUnchanged

\* malloc_initialized = 1;
InitFlag(t) ==
    /\ ~crashed
    /\ mcall[t].pc = "flag"
    /\ malloc_initialized' = 1
    /\ mcall' = [mcall EXCEPT ![t] = Initialised(@)]
    /\ UNCHANGED <<head, tail, hdr, mem, maps, global_malloc_lock, crashed>>
    /\ MemUnchanged

LockFree(lock) == lock.owner = 0

\* EnterCriticalSection(&global_malloc_lock)
EnterCriticalSection(t) ==
    /\ ~crashed
    /\ mcall[t].pc = "enter"
    /\ LockFree(global_malloc_lock)
    /\ global_malloc_lock' = [global_malloc_lock EXCEPT !.owner = t]
    /\ mcall' = [mcall EXCEPT ![t].pc = IF mcall[t].fn = "malloc" THEN "find" ELSE "body"]
    /\ UNCHANGED <<head, tail, hdr, mem, maps, malloc_initialized, crashed>>
    /\ MemUnchanged

\* header_t *header = get_free_block(size);
MallocFind(t) ==
    /\ ~crashed
    /\ mcall[t].pc = "find"
    /\ mcall' = [mcall EXCEPT ![t].pc = "take",
                               ![t].header = get_free_block(hdr, head, mcall[t].size)]
    /\ UNCHANGED <<head, tail, hdr, mem, maps, malloc_initialized, global_malloc_lock, crashed>>
    /\ MemUnchanged

\* the rest of malloc up to LeaveCriticalSection; a header that has been
\* released since it was found is a store to unmapped memory
MallocTake(t) ==
    /\ ~crashed
    /\ mcall[t].pc = "take"
    /\ IF mcall[t].header # NULL /\ mcall[t].header \notin DOMAIN hdr
       THEN /\ crashed' = TRUE
            /\ UNCHANGED <<head, tail, hdr, mem, maps, mcall>>
       ELSE \E valloc_ok \in BOOLEAN :
              LET r == TakeOrAppend(head, tail, hdr, mem, maps, mcall[t].size,
                                    mcall[t].header, valloc_ok)
              IN  /\ MemApply(r)
                  /\ mcall' = [mcall EXCEPT ![t].pc = "leave", ![t].ret = r.ret]
                  /\ UNCHANGED crashed
    /\ UNCHANGED <<malloc_initialized, global_malloc_lock>>
    /\ MemUnchanged

\* the body of free up to LeaveCriticalSection; the header of a block that
\* is released already is unmapped memory
FreeBody(t) ==
    /\ ~crashed
    /\ mcall[t].pc = "body"
    /\ LET header == mcall[t].block - MEM_HEADER_SIZE
       IN  IF header \notin DOMAIN hdr
           THEN /\ crashed' = TRUE
                /\ UNCHANGED <<head, tail, hdr, mem, maps, mcall>>
           ELSE /\ MemApply(free(head, tail, hdr, mem, maps, mcall[t].block))
                /\ mcall' = [mcall EXCEPT ![t].pc = "leave", ![t].ret = NULL]
                /\ UNCHANGED crashed
    /\ UNCHANGED <<malloc_initialized, global_malloc_lock>>
    /\ MemUnchanged

\* LeaveCriticalSection(&global_malloc_lock); return.  Leaving a critical
\* section another thread owns is undefined: it is released, or stays owned.
LeaveCriticalSection(t) ==
    /\ ~crashed
    /\ mcall[t].pc = "leave"
    /\ \E owner \in (IF global_malloc_lock.owner = t THEN {0} ELSE {0, global_malloc_lock.owner}) :
          global_malloc_lock' = [global_malloc_lock EXCEPT !.owner = owner]
    /\ mcall' = [mcall EXCEPT ![t] =
                    [@ EXCEPT !.pc = "idle", !.fn = "none",
                              !.got = IF mcall[t].ret = NULL THEN @ ELSE @ \cup {mcall[t].ret}]]
    /\ UNCHANGED <<head, tail, hdr, mem, maps, malloc_initialized, crashed>>
    /\ MemUnchanged

----------------------------------------------------------------------------
(* The arena allocator (unnamed/part_003): one reservation, committed as the *)
(* position moves up.  The arena_allocator_t sits in the first bytes of the   *)
(* reservation; the model keeps its four fields, and the base, in allocator.  *)

ARENA_HEADER_SIZE == 32
DEFAULT_ALIGNMENT == 8

\* a & b on size_t
RECURSIVE BitAnd(_, _)
BitAnd(a, b) ==
    IF a = 0 \/ b = 0 THEN 0
    ELSE 2 * BitAnd(a \div 2, b \div 2) + (IF a % 2 = 1 /\ b % 2 = 1 THEN 1 ELSE 0)

\* ~a on size_t
BitNot(a) == SIZE_MAX - a

\* a - b on size_t
SubSz(a, b) == (a - b + SizeMod) % SizeMod

\* an align_up that rounds down
AlignDown(value, alignment) == BitAnd(value, BitNot(SubSz(alignment, 1)))

align_up(value, alignment) ==
    BitAnd(AddSz(value, SubSz(alignment, 1)), BitNot(SubSz(alignment, 1)))

min_size(a, b) == IF a < b THEN a ELSE b

\* the addresses mmap may pick in a free region: its start, a page further
Skews == {0, PAGE_SIZE}

ArenaRec(base, reserve_size, commit_size, position, commit_position) ==
    [base |-> base, reserve_size |-> reserve_size, commit_size |-> commit_size,
     position |-> position, commit_position |-> commit_position]

\* the readable and writable part of the reservation at base is its first
\* len bytes
Committed(mp, base, len) == {r \in mp : r.base # base} \cup {[base |-> base, len |-> len]}

NoSize(reserve_size, commit_size) == reserve_size = 0 \/ commit_size = 0

\* arena_create; reserve_ok and commit_ok are the platform's answers, skew
\* is where in its region the kernel puts the reservation: mmap promises a
\* multiple of the page size and no more
\* A reservation of no bytes fails.  A commit of no bytes (a commit size
\* that align_up wrapped to 0) fails under VirtualAlloc and succeeds under
\* mprotect: commit_ok stands for either, and after the success the stores
\* of the header go to pages without access, a fatal signal.
arena_create(mp, reserve_size, commit_size, reserve_ok, commit_ok, skew) ==
    IF NoSize(reserve_size, commit_size) THEN [al |-> <<>>, mp |-> mp, crashed |-> FALSE]
    ELSE LET reserved == align_up(reserve_size, PAGE_SIZE)
             rounded  == align_up(commit_size, PAGE_SIZE)
             commit   == IF rounded > reserved THEN reserved ELSE rounded
             region   == IF reserve_ok THEN PickBase(mp, reserved) ELSE NULL
             base     == IF region = NULL THEN NULL ELSE region + skew
         IN  IF base = NULL THEN [al |-> <<>>, mp |-> mp, crashed |-> FALSE]
             ELSE IF ~commit_ok THEN [al |-> <<>>, mp |-> mp, crashed |-> FALSE]
             ELSE IF commit = 0
                  THEN [al |-> <<>>, mp |-> Committed(mp, base, 0), crashed |-> TRUE]
             ELSE [al |-> <<ArenaRec(base, reserved, commit, ARENA_HEADER_SIZE, commit)>>,
                   mp |-> Committed(mp, base, commit), crashed |-> FALSE]

\* an allocation that leaves the position where the slot starts
PositionStays(aligned_position, size) == aligned_position

NewPosition(aligned_position, size) == AddSz(aligned_position, size)

\* an allocation that hands the slot out as it finds it
SlotLeftDirty(m, mp, result, size) == [m |-> m, crashed |-> FALSE]

\* memset(result, 0, size): a store outside the committed pages is a fatal
\* signal, after the bytes before it have been cleared
ZeroSlot(m, mp, result, size) ==
    IF RangeMapped(mp, result, size)
    THEN [m |-> MemsetZero(m, result, size), crashed |-> FALSE]
    ELSE LET ends == {r.base + r.len : r \in {x \in mp : result >= x.base /\ result < x.base + x.len}}
             upto == IF ends = {} THEN result ELSE CHOOSE e \in ends : TRUE
         IN  [m |-> MemsetZero(m, result, upto - result), crashed |-> TRUE]

ArenaResult(ret, al, m, mp, crash) ==
    [ret |-> ret, al |-> al, m |-> m, mp |-> mp, crashed |-> crash]

\* arena_alloc_aligned; al is <<>> for a NULL arena; commit_ok is the
\* platform's answer when more memory has to be committed
arena_alloc_aligned(al, m, mp, size, alignment, commit_ok) ==
    IF al = <<>> \/ size = 0 THEN ArenaResult(NULL, al, m, mp, FALSE)
    ELSE LET arena == al[1]
             aligned_position == align_up(arena.position, alignment)
             new_position == NewPosition(aligned_position, size)
         IN  IF new_position > arena.reserve_size THEN ArenaResult(NULL, al, m, mp, FALSE)
             ELSE LET grow == new_position > arena.commit_position
                      new_commit_position ==
                          min_size(align_up(new_position, arena.commit_size),
                                   arena.reserve_size)
                  IN  IF grow /\ ~commit_ok THEN ArenaResult(NULL, al, m, mp, FALSE)
                      ELSE LET commit_position == IF grow THEN new_commit_position
                                                  ELSE arena.commit_position
                               mp2 == IF grow THEN Committed(mp, arena.base, commit_position)
                                      ELSE mp
                               result == arena.base + aligned_position
                               z == ZeroSlot(m, mp2, result, size)
                           IN  ArenaResult(IF z.crashed THEN NULL ELSE result,
                                           <<[arena EXCEPT !.position = new_position,
                                                           !.commit_position = commit_position]>>,
                                           z.m, mp2, z.crashed)

arena_alloc(al, m, mp, size, commit_ok) ==
    arena_alloc_aligned(al, m, mp, size, DEFAULT_ALIGNMENT, commit_ok)

\* a reset that leaves the position where it is
ResetForgotten(al) == al

arena_reset(al) ==
    IF al = <<>> THEN al ELSE <<[al[1] EXCEPT !.position = ARENA_HEADER_SIZE]>>

arena_get_position(al) == IF al # <<>> THEN al[1].position ELSE 0

\* a set_position that does nothing
PositionKept(al, position) == al

\* a range test that lets every position through
AnyPosition(al, position) == TRUE

\* the positions arena_set_position accepts
InRange(al, position) ==
    position >= ARENA_HEADER_SIZE /\ position <= al[1].reserve_size

arena_set_position(al, position) ==
    IF al # <<>> /\ InRange(al, position)
    THEN <<[al[1] EXCEPT !.position = position]>>
    ELSE al

\* the call as the caller sees it: its arguments, and the position, the
\* committed size and the arena's bytes when it was made
ArenaFrame(fn, a, b) ==
    [NoFrame EXCEPT !.fn = fn, !.a = a, !.b = b,
        !.old = arena_get_position(allocator),
        !.cap = IF allocator = <<>> THEN 0 ELSE allocator[1].commit_position,
        !.snap = IF allocator = <<>> THEN NoSnap
                 ELSE Contents(mem, allocator[1].base, allocator[1].reserve_size)]

\* whether the platform's answer to a commit matters to the call
NeedsCommit(al, size, alignment) ==
    /\ al # <<>>
    /\ size # 0
    /\ NewPosition(align_up(al[1].position, alignment), size) <= al[1].reserve_size
    /\ NewPosition(align_up(al[1].position, alignment), size) > al[1].commit_position

ArenaCreate(t, reserve_size, commit_size) ==
    /\ Ready(t)
    /\ allocator = <<>>
    /\ \E reserve_ok \in BOOLEAN, commit_ok \in BOOLEAN, skew \in Skews :
          LET r == arena_create(maps, reserve_size, commit_size, reserve_ok, commit_ok, skew)
          IN  /\ allocator' = r.al
              /\ maps' = r.mp
              /\ crashed' = r.crashed
              /\ last' = LastOf(t, ArenaFrame("arena_create", reserve_size, commit_size),
                                IF r.al = <<>> THEN NULL ELSE r.al[1].base)
    /\ slots' = {}
    /\ marked' = <<>>
    /\ made' = 0
    /\ UNCHANGED <<numaVars, memallocVars, mem>>

ArenaDestroy(t) ==
    /\ Ready(t)
    /\ allocator # <<>>
    /\ maps' = Munmap(maps, allocator[1].base, allocator[1].reserve_size)
    /\ mem' = MunmapMem(mem, maps, allocator[1].base, allocator[1].reserve_size)
    /\ allocator' = <<>>
    /\ slots' = {}
    /\ marked' = <<>>
    /\ made' = 0
    /\ last' = LastOf(t, ArenaFrame("arena_destroy", 0, 0), 0)
    /\ UNCHANGED <<numaVars, memallocVars, crashed>>

\* arena_alloc and arena_alloc_aligned
ArenaAllocAligned(t, fn, size, alignment) ==
    /\ Ready(t)
    /\ made < MaxArenaAllocs
    /\ \E commit_ok \in (IF NeedsCommit(allocator, size, alignment) THEN BOOLEAN ELSE {TRUE}) :
          LET r == arena_alloc_aligned(allocator, mem, maps, size, alignment, commit_ok)
          IN  /\ allocator' = r.al
              /\ mem' = r.m
              /\ maps' = r.mp
              /\ crashed' = r.crashed
              /\ last' = LastOf(t, ArenaFrame(fn, size, alignment), r.ret)
              /\ slots' = IF r.ret = NULL THEN slots
                          ELSE slots \cup {[ptr |-> r.ret, n |-> size]}
              /\ made' = IF r.ret = NULL THEN made ELSE made + 1
    /\ UNCHANGED <<numaVars, memallocVars, marked>>

ArenaAlloc(t, size) == ArenaAllocAligned(t, "arena_alloc", size, DEFAULT_ALIGNMENT)

ArenaReset(t) ==
    /\ Ready(t)
    /\ allocator' = arena_reset(allocator)
    /\ slots' = {}
    /\ marked' = <<>>
    /\ last' = LastOf(t, ArenaFrame("arena_reset", 0, 0), 0)
    /\ UNCHANGED <<numaVars, memallocVars, mem, maps, crashed, made>>

\* the caller keeps the position it reads
ArenaGetPosition(t) ==
    /\ Ready(t)
    /\ marked' = allocator
    /\ last' = LastOf(t, ArenaFrame("arena_get_position", 0, 0), arena_get_position(allocator))
    /\ UNCHANGED <<numaVars, memallocVars, mem, maps, crashed, allocator, slots, made>>

\* the slots that end at or below the new position stay the caller's, the
\* others are released
ArenaSetPosition(t, position) ==
    /\ Ready(t)
    /\ allocator' = arena_set_position(allocator, position)
    /\ slots' = IF allocator = <<>> THEN slots
                ELSE {x \in slots : x.ptr + x.n <= allocator[1].base + allocator'[1].position}
    /\ marked' = IF marked # <<>> /\ marked[1].position = position THEN marked ELSE <<>>
    /\ last' = LastOf(t, ArenaFrame("arena_set_position", position, 0), 0)
    /\ UNCHANGED <<numaVars, memallocVars, mem, maps, crashed, made>>

----------------------------------------------------------------------------
(* The caller takes the result.  As the tests of the repository do         *)
(* (memset(ptr, 0xAA, n) after every allocation), it fills a block it       *)
(* got: the model stores the first and the last of the n bytes.             *)

WriteOffsets(n) == {0, n - 1}

GaveBlock(l) ==
    /\ l.fn \in {"numalloc", "calloc", "realloc", "memalloc.malloc", "memalloc.calloc",
                "arena_alloc", "arena_alloc_aligned"}
    /\ l.ret # NULL

\* the n bytes the caller asked for in the call that returned
AskedBytes(l) ==
    IF l.fn \in {"calloc", "memalloc.calloc"} THEN MulSz(l.a, l.b)
    ELSE IF l.fn = "realloc" THEN l.b ELSE l.a

Return ==
    /\ last.fn # "none"
    /\ ~crashed
    /\ last' = NoLast
    /\ IF GaveBlock(last)
       THEN LET cells == {last.ret + k : k \in WriteOffsets(AskedBytes(last))}
            IN  IF \A a \in cells : Mapped(maps, a)
                THEN /\ mem' = Store(mem, [a \in cells |-> PATTERN])
                     /\ crashed' = FALSE
                ELSE /\ mem' = mem
                     /\ crashed' = TRUE
       ELSE UNCHANGED <<mem, crashed>>
    /\ UNCHANGED <<arenaVars, announced, memallocVars, g_initialized, g_topology, g_node_pools, my_arena, maps, pc, frame,
                   held, tally, migrated>>

----------------------------------------------------------------------------
(* The requests the clients make *)

\* two threads on the small classes: the boundary between class 0 and class 1
Requests == {0, 16, 17}

\* one thread on every path: a small class, a large block below the huge
\* page size, one that fills a huge page exactly, one past it
LargeRequests == {0, 16, 2049, HUGE_PAGE_SIZE - HEADER_SIZE, HUGE_PAGE_SIZE + 1}

\* (num, size) pairs for calloc: zero arguments, a small product, products
\* that do not fit in size_t (wrapping to 0 and to 16)
CallocArgs ==
    { <<0, 4>>, <<4, 0>>, <<4, 4>>, <<SizeMod \div 2, 2>>, <<SizeMod \div 4 + 4, 4>> }

TwoNodes == [num_nodes |-> 2, num_cpus |-> 2, cpu_to_node_map |-> <<0, 1>>]
OneNode == [num_nodes |-> 1, num_cpus |-> 2, cpu_to_node_map |-> <<0, 0>>]

\* the platforms init may find itself on
Topologies == {OneNode, TwoNodes}

\* room for two class-0 batches
PoolSize == 2 * (16 + HEADER_SIZE) * REFILL_BATCH_SIZE

\* init: (pool size, topology found or none, pools the platform grants)
InitArgs == { <<PoolSize, <<TwoNodes>>, 2>>, <<PoolSize, <<>>, 0>> }
SoloInitArgs == { <<PoolSize, <<OneNode>>, 1>> }

Solo == {1}

\* two threads, small classes
Next ==
    \/ \E x \in InitArgs : NumallocInit(1, x[1], x[2], x[3])
    \/ \E t \in Threads, n \in Requests : Numalloc(t, n)
    \/ \E t \in Threads : SlowLock(t)
    \/ \E t \in Threads : SlowBump(t)
    \/ \E t \in Threads : SlowCarve(t)
    \/ \E t \in Threads, h \in held : NumallocFree(t, h)
    \/ \E t \in Threads, x \in CallocArgs : NumallocCalloc(t, x[1], x[2])
    \/ \E t \in Threads, n \in Requests : NumallocReallocNull(t, n)
    \/ \E t \in Threads, h \in held, n \in Requests : NumallocRealloc(t, h, n)
    \/ \E t \in Threads : GetThreadStats(t)
    \/ Return

Spec == Init /\ [][Next]_vars

\* a thread whose call can take its next step again and again takes it (a
\* waiter in pthread_mutex_lock gets a mutex that is released again and
\* again), and the caller that got a result goes on
Fairness ==
    /\ \A t \in Threads : SF_vars(SlowLock(t) \/ SlowBump(t) \/ SlowCarve(t))
    /\ WF_vars(Return)

\* two threads, each public call on the smallest class and the next
NextFair ==
    \/ \E x \in InitArgs : NumallocInit(1, x[1], x[2], x[3])
    \/ \E t \in Threads : Numalloc(t, 16)
    \/ \E t \in Threads : SlowLock(t)
    \/ \E t \in Threads : SlowBump(t)
    \/ \E t \in Threads : SlowCarve(t)
    \/ \E t \in Threads, h \in held : NumallocFree(t, h)
    \/ \E t \in Threads : NumallocCalloc(t, 4, 4)
    \/ \E t \in Threads, h \in held : NumallocRealloc(t, h, 17)
    \/ Return

SpecFair == Init /\ [][NextFair]_vars /\ Fairness

\* one thread, small and large blocks
NextLarge ==
    \/ \E x \in SoloInitArgs : NumallocInit(1, x[1], x[2], x[3])
    \/ \E t \in Solo, n \in LargeRequests : Numalloc(t, n)
    \/ \E t \in Solo : SlowLock(t)
    \/ \E t \in Solo : SlowBump(t)
    \/ \E t \in Solo : SlowCarve(t)
    \/ \E t \in Solo, h \in held : NumallocFree(t, h)
    \/ \E t \in Solo, x \in CallocArgs : NumallocCalloc(t, x[1], x[2])
    \/ \E t \in Solo, n \in LargeRequests : NumallocReallocNull(t, n)
    \/ \E t \in Solo, h \in held, n \in LargeRequests : NumallocRealloc(t, h, n)
    \/ \E t \in Solo : GetThreadStats(t)
    \/ Return

SpecLarge == Init /\ [][NextLarge]_vars

\* the zeroed allocators of both programs
NextCalloc ==
    \/ \E x \in SoloInitArgs : NumallocInit(1, x[1], x[2], x[3])
    \/ \E t \in Solo, x \in CallocArgs : NumallocCalloc(t, x[1], x[2])
    \/ \E t \in Solo : SlowLock(t)
    \/ \E t \in Solo : SlowBump(t)
    \/ \E t \in Solo : SlowCarve(t)
    \/ \E t \in Solo, h \in held : NumallocFree(t, h)
    \/ \E t \in Solo, x \in CallocArgs : MemCalloc(t, x[1], x[2])
    \/ \E t \in Solo, b \in mlive : MemFree(t, b)
    \/ \E t \in Solo, n \in {0, 8} : MemMalloc(t, n)
    \/ Return

SpecCalloc == Init /\ [][NextCalloc]_vars

\* every size up to a class size past the largest class, sizes of the large
\* path, the largest size_t
MaxClassInput == 2112
ClassInputs == 0..MaxClassInput \cup {HUGE_PAGE_SIZE, SIZE_MAX}

\* the size class lookup on every input
NextClass ==
    \/ \E t \in Solo, n \in ClassInputs : ClassLookup(t, n)
    \/ Return

SpecClass == Init /\ [][NextClass]_vars

\* arena_create(reserve, commit): a zero argument, four pages committed one
\* at a time, sizes that are rounded to pages, a commit size clamped to the
\* reservation
CreateArgs == { <<0, PAGE_SIZE>>, <<4 * PAGE_SIZE, PAGE_SIZE>>, <<5000, 100>>,
                <<2 * PAGE_SIZE, 3 * PAGE_SIZE>>, <<PAGE_SIZE, 0>>,
                <<SIZE_MAX, PAGE_SIZE>>, <<PAGE_SIZE, SIZE_MAX>> }

\* arena_alloc sizes: nothing, a small slot, a page, more than any
\* reservation, sizes whose sum with the position does not fit in size_t
ArenaSizes == {0, 16, PAGE_SIZE, 1048576, SIZE_MAX - 8}

\* arena_alloc_aligned(size, alignment), alignments powers of two
AlignedArgs == { <<1, 16>>, <<1, 64>>, <<16, 64>>, <<PAGE_SIZE, PAGE_SIZE>>, <<SIZE_MAX, 16>>,
                 <<16, 2 * PAGE_SIZE>> }

\* arena_set_position arguments besides a position read before: below the
\* header, the header, past the first committed page, past any reservation
Positions == {16, ARENA_HEADER_SIZE, 2 * PAGE_SIZE, 1048576}

MarkedPosition == IF marked = <<>> THEN {} ELSE {marked[1].position}

NextArena ==
    \/ \E t \in Solo, x \in CreateArgs : ArenaCreate(t, x[1], x[2])
    \/ \E t \in Solo : ArenaDestroy(t)
    \/ \E t \in Solo, n \in ArenaSizes : ArenaAlloc(t, n)
    \/ \E t \in Solo, x \in AlignedArgs : ArenaAllocAligned(t, "arena_alloc_aligned", x[1], x[2])
    \/ \E t \in Solo : ArenaReset(t)
    \/ \E t \in Solo : ArenaGetPosition(t)
    \/ \E t \in Solo, p \in Positions \cup MarkedPosition : ArenaSetPosition(t, p)
    \/ Return

SpecArena == Init /\ [][NextArena]_vars

\* one thread, requests at the edges of a block: a small one, one whose
\* size with the header fills a page exactly, one within a header of the
\* largest size_t; resizes by one byte and up to the page
RoomRequests == {16, PAGE_SIZE - HEADER_SIZE, SIZE_MAX - 8}

RoomResizes == {17, PAGE_SIZE}

NextRoom ==
    \/ \E x \in SoloInitArgs : NumallocInit(1, x[1], x[2], x[3])
    \/ \E t \in Solo, n \in RoomRequests : Numalloc(t, n)
    \/ \E t \in Solo : SlowLock(t)
    \/ \E t \in Solo : SlowBump(t)
    \/ \E t \in Solo : SlowCarve(t)
    \/ \E t \in Solo, h \in held : NumallocFree(t, h)
    \/ \E t \in Solo, x \in CallocArgs : NumallocCalloc(t, x[1], x[2])
    \/ \E t \in Solo, h \in held, n \in RoomResizes : NumallocRealloc(t, h, n)
    \/ Return

SpecRoom == Init /\ [][NextRoom]_vars

\* memalloc called by one thread: blocks of two sizes, so that a free
\* block can be too small for a request
ListSizes == {0, 8, 16}

NextList ==
    \/ \E t \in Solo, n \in ListSizes : MemMalloc(t, n)
    \/ \E t \in Solo, b \in mlive : MemFree(t, b)
    \/ Return

SpecList == Init /\ [][NextList]_vars

\* memalloc under two threads
MemSizes == {0, 8}

NextMem ==
    \/ \E t \in Threads, n \in MemSizes : MallocEntry(t, n)
    \/ \E t \in Threads : \E b \in mcall[t].got : FreeEntry(t, b)
    \/ \E t \in Threads : InitCheck(t)
    \/ \E t \in Threads : InitLock(t)
    \/ \E t \in Threads : InitFlag(t)
    \/ \E t \in Threads : EnterCriticalSection(t)
    \/ \E t \in Threads : MallocFind(t)
    \/ \E t \in Threads : MallocTake(t)
    \/ \E t \in Threads : FreeBody(t)
    \/ \E t \in Threads : LeaveCriticalSection(t)

SpecMem == Init /\ [][NextMem]_vars

\* init that succeeds, init that gets no pool
LifeInitArgs == SoloInitArgs \cup { <<PoolSize, <<OneNode>>, 0>> }

\* a null request, a small one, a large one
LifeRequests == {0, 16, 2049}

\* one thread through init, use, cleanup and init again
NextLife ==
    \/ \E x \in LifeInitArgs : NumallocInit(1, x[1], x[2], x[3])
    \/ \E t \in Solo : NumallocCleanup(t)
    \/ \E t \in Solo, n \in LifeRequests : Numalloc(t, n)
    \/ \E t \in Solo : SlowLock(t)
    \/ \E t \in Solo : SlowBump(t)
    \/ \E t \in Solo : SlowCarve(t)
    \/ \E t \in Solo, h \in held : NumallocFree(t, h)
    \/ \E t \in Solo : GetThreadStats(t)
    \/ Return

SpecLife == Init /\ [][NextLife]_vars

\* a pool that holds a batch of the largest class, 64 * (2048 + 16) bytes
BigPoolSize == 33 * PAGE_SIZE

\* init with the large pool, init with the small one
ReinitArgs == { <<BigPoolSize, <<OneNode>>, 1>>, <<PoolSize, <<OneNode>>, 1>> }

\* requests of the smallest and of the largest class
ReinitRequests == {16, 2048}

\* one thread that allocates and frees, cleans up, initialises again with
\* the same or another pool size and allocates again
NextReinit ==
    \/ \E x \in ReinitArgs : NumallocInit(1, x[1], x[2], x[3])
    \/ \E t \in Solo : NumallocCleanup(t)
    \/ \E t \in Solo, n \in ReinitRequests : Numalloc(t, n)
    \/ \E t \in Solo : SlowLock(t)
    \/ \E t \in Solo : SlowBump(t)
    \/ \E t \in Solo : SlowCarve(t)
    \/ \E t \in Solo, h \in held : NumallocFree(t, h)
    \/ Return

SpecReinit == Init /\ [][NextReinit]_vars

----------------------------------------------------------------------------
(* Properties *)

\* the blocks on a free stack, following the links stored in the blocks
MaxChain == PoolSize \div BlockStride(0) + 1

RECURSIVE ListCells(_, _, _)
ListCells(m, p, fuel) ==
    IF p = NULL \/ fuel = 0 THEN {}
    ELSE {p} \cup ListCells(m, LoadWord(m, p), fuel - 1)

Stack(t, i) ==
    IF my_arena[t] = <<>> THEN {}
    ELSE ListCells(mem, my_arena[t][1].free_lists[i], MaxChain)

Classes == 0..(SIZE_CLASSES - 1)

AllStacked == UNION {Stack(t, i) : t \in Threads, i \in Classes}

\* the storage of a live block: its header and the bytes the caller asked for
Disjoint(h1, h2) == h1.ptr + h1.n <= HeaderOf(h2.ptr) \/ h2.ptr + h2.n <= HeaderOf(h1.ptr)

(* C1: while every block is freed by the thread that allocated it, the      *)
(* storage of two live blocks never overlaps and no live block is on any     *)
(* thread cache's free stack, whatever the interleaving of the threads.      *)
C1_LiveBlocksApart ==
    migrated = {} =>
        /\ \A h1 \in held, h2 \in held : h1 # h2 => Disjoint(h1, h2)
        /\ \A h \in held : h.ptr \notin AllStacked

\* two threads hold a block each, carved from the same node pool, and both
\* have blocks cached
C1_Witness ==
    /\ migrated = {}
    /\ \E h1 \in held, h2 \in held :
          /\ h1.by # h2.by
          /\ HdrNode(mem, h1.ptr) = HdrNode(mem, h2.ptr)
          /\ \A t \in Threads : \E i \in Classes : Stack(t, i) # {}

\* the class of a request, by definition: the least class that holds it
ClassOf(n) ==
    CHOOSE i \in Classes :
        /\ n <= SIZE_CLASS_SIZES[i + 1]
        /\ \A j \in Classes : n <= SIZE_CLASS_SIZES[j + 1] => i <= j

SmallRequest(n) == n >= 1 /\ n <= SIZE_CLASS_SIZES[SIZE_CLASSES]

HeaderFits(p, n) ==
    /\ HdrClass(mem, p) = ClassOf(n)
    /\ HdrSize(mem, p) = SIZE_CLASS_SIZES[ClassOf(n) + 1]

(* C2: the header before every live block that was given for a request of   *)
(* 1..2048 bytes has size_class = class_of(n) and size = the size of that    *)
(* class, from the call that returned it up to and including its free call.  *)
C2_HeaderMatchesRequest ==
    /\ \A h \in held : SmallRequest(h.req) => HeaderFits(h.ptr, h.req)
    /\ (last.fn = "free" /\ SmallRequest(last.b)) => HeaderFits(last.a, last.b)

\* numalloc(17) was served from the thread's cache: its node pool was
\* refilled once, for class 1, and the thread allocated twice
C2_Witness ==
    /\ last.fn = "numalloc" /\ last.a = 17 /\ last.ret # NULL
    /\ my_arena[last.t][1].stats_allocs = 2
    /\ my_arena[last.t][1].stats_frees = 1
    /\ g_node_pools[my_arena[last.t][1].numa_node][1].used = BatchBytes(1)
    /\ HeaderFits(last.ret, 17)

LargeRequest(n) == n > SIZE_CLASS_SIZES[SIZE_CLASSES]

\* the length of the mapping that starts at base
MappingAt(base) == {r.len : r \in {x \in maps : x.base = base}}

(* C3: the header of every live block given for a request above 2048 bytes  *)
(* has size_class = -1 and a size that is the exact length of the mapping    *)
(* starting at the header, and that size is a multiple of the page size.     *)
C3_LargeHeaderIsMapping ==
    \A h \in held : LargeRequest(h.req) =>
        /\ HdrClass(mem, h.ptr) = -1
        /\ MappingAt(HeaderOf(h.ptr)) = {HdrSize(mem, h.ptr)}
        /\ HdrSize(mem, h.ptr) % PAGE_SIZE = 0

StackHome(t) == my_arena[t][1].numa_node

(* C4, as stated: every block on thread cache T's class-i free stack has a  *)
(* header with size_class = i and numa_node = T's home node.                 *)
C4_StackHeadersAnyFree ==
    \A t \in Threads, i \in Classes : \A p \in Stack(t, i) :
        HdrClass(mem, p) = i /\ HdrNode(mem, p) = StackHome(t)

(* C4, amended: every block on thread cache T's class-i free stack has a    *)
(* header with size_class = i, and numa_node = T's home node unless the      *)
(* block was at some time freed by a thread other than the one it was        *)
(* allocated to.                                                             *)
C4_StackHeaders ==
    \A t \in Threads, i \in Classes : \A p \in Stack(t, i) :
        /\ HdrClass(mem, p) = i
        /\ p \notin migrated => HdrNode(mem, p) = StackHome(t)

\* a stack holds a block freed by another thread, from the other node,
\* on top of blocks of its own refill
C4_Witness ==
    \E t \in Threads, i \in Classes :
        /\ \E p \in Stack(t, i) : p \in migrated /\ HdrNode(mem, p) # StackHome(t)
        /\ \E p \in Stack(t, i) : p \notin migrated /\ HdrNode(mem, p) = StackHome(t)

Pools == {n \in 0..(MAX_NUMA_NODES - 1) : g_node_pools[n] # <<>>}

WatermarkInRange ==
    \A n \in Pools : g_node_pools[n][1].used >= 0
                     /\ g_node_pools[n][1].used <= g_node_pools[n][1].total_size

WatermarkGrows ==
    \A n \in Pools : g_node_pools'[n] # <<>> =>
        g_node_pools'[n][1].used >= g_node_pools[n][1].used

(* C5: for every node pool 0 <= used <= total_size in every reachable       *)
(* state, and no step of any thread (numalloc, free, calloc, realloc)        *)
(* decreases used.                                                           *)
C5_PoolWatermark == []WatermarkInRange /\ [][WatermarkGrows]_vars

\* a refill was refused: the pool of the caller's node has been used, and
\* what is left is less than a batch of the class asked for
C5_Witness ==
    /\ last.fn \in {"numalloc", "calloc", "realloc"} /\ last.ret = NULL
    /\ my_arena[last.t] # <<>>
    /\ LET pool == g_node_pools[StackHome(last.t)][1]
           n == AskedBytes(last)
       IN  /\ SmallRequest(n)
           /\ pool.used > 0
           /\ pool.used + BatchBytes(ClassOf(n)) > pool.total_size
           /\ Stack(last.t, ClassOf(n)) = {}

(* C6: numalloc_calloc(num, size) that returns a block returns it with its  *)
(* first num*size bytes zero, whatever the block held before.                *)
C6_CallocZeroed ==
    (last.fn = "calloc" /\ last.ret # NULL) =>
        Contents(mem, last.ret, last.a * last.b) = NoSnap

\* calloc got a recycled block: the thread's node pool was refilled once,
\* the thread had freed a block, which held the caller's pattern and now a link
C6_Witness ==
    /\ last.fn = "calloc" /\ last.ret # NULL
    /\ my_arena[last.t][1].stats_allocs = 2
    /\ my_arena[last.t][1].stats_frees = 1
    /\ migrated = {}
    /\ \A n \in Pools : g_node_pools[n][1].used \in {0, BatchBytes(0)}
    /\ \A u \in Threads \ {last.t} : my_arena[u] = <<>>

\* num * size does not fit in size_t
Overflows(num, size) == num * size > SIZE_MAX

ZeroedCall(l) == l.fn \in {"calloc", "memalloc.calloc"}

MustRefuse(l) == l.a = 0 \/ l.b = 0 \/ Overflows(l.a, l.b)

(* C7: numalloc_calloc and memalloc's calloc return NULL when num = 0,      *)
(* when size = 0 and when num * size does not fit in size_t, and the call    *)
(* leaves every pool, cache, counter, block list and mapping as it was.      *)
C7_CallocRefuses ==
    [][(last.fn = "none" /\ ZeroedCall(last') /\ MustRefuse(last')) =>
          /\ last'.ret = NULL
          /\ UNCHANGED <<g_node_pools, my_arena, mem, maps, held, tally, pc, frame>>
          /\ UNCHANGED <<head, tail, hdr, mlive, malloc_initialized>>]_vars

\* with blocks of both allocators live, numalloc_calloc was called with a
\* product that wraps around to 16 and returned NULL
C7_Witness ==
    /\ last.fn = "calloc" /\ last.ret = NULL
    /\ g_initialized = 1
    /\ Overflows(last.a, last.b) /\ MulSz(last.a, last.b) = 16
    /\ held # {} /\ mlive # {}

\* the first len bytes of a snapshot
Prefix(snap, len) == [k \in {j \in DOMAIN snap : j < len} |-> snap[k]]

MinOf(a, b) == IF a <= b THEN a ELSE b

(* C8: after numalloc_realloc(p, n) returned a non-null q for a live block  *)
(* p, the first min(old_capacity(p), n) bytes of q are the bytes p held      *)
(* before the call, for small and large p, moved or not.                     *)
C8_ReallocKeepsContents ==
    (last.fn = "realloc" /\ last.a # NULL /\ last.ret # NULL) =>
        LET len == MinOf(last.cap, last.b)
        IN  Contents(mem, last.ret, len) = Prefix(last.snap, len)

\* a large block that held the caller's bytes was moved to a new mapping
C8_Witness ==
    /\ last.fn = "realloc" /\ last.a # NULL /\ last.ret # NULL
    /\ last.ret # last.a
    /\ last.cap > SIZE_CLASS_SIZES[SIZE_CLASSES]
    /\ last.snap # NoSnap
    /\ ~Mapped(maps, last.a)

(* C10: numalloc_get_thread_stats called by thread T returns the number of  *)
(* T's allocations that returned a block and the number of T's completed     *)
(* frees of blocks, (0, 0) for a thread without a cache.                     *)
C10_StatsCountCalls ==
    last.fn = "stats" =>
        /\ last.a = tally[last.t].allocs
        /\ last.b = tally[last.t].frees

StatsOf(ar) == IF ar = <<>> THEN <<0, 0>> ELSE <<ar[1].stats_allocs, ar[1].stats_frees>>

\* what a free of the live block p by thread t, which has a cache, does
FreeEffect(t, p) ==
    LET cls == HdrClass(mem, p)
    IN  /\ g_node_pools' = g_node_pools
        /\ held' = {h \in held : h.ptr # p}
        /\ IF cls < 0
           THEN /\ ~Mapped(maps', HeaderOf(p))
                /\ maps' \subseteq maps
                /\ my_arena' = my_arena
           ELSE /\ maps' = maps
                /\ my_arena'[t][1].free_lists[cls] = p
                /\ LoadWord(mem', p) = my_arena[t][1].free_lists[cls]
                /\ StatsOf(my_arena'[t]) =
                       <<StatsOf(my_arena[t])[1], StatsOf(my_arena[t])[2] + 1>>

\* what the return of ret from an allocation of n bytes by thread t does
AllocEffect(t, n, ret) ==
    /\ g_node_pools' = g_node_pools
    /\ (n = 0 \/ g_initialized = 0) => ret = NULL
    /\ ret = NULL =>
          /\ mem' = mem /\ maps' = maps /\ held' = held
          /\ StatsOf(my_arena'[t]) = StatsOf(my_arena[t])
    /\ ret # NULL =>
          /\ held' = held \cup {HeldRec(ret, n, n, t)}
          /\ StatsOf(my_arena'[t]) =
                 <<StatsOf(my_arena[t])[1] + 1, StatsOf(my_arena[t])[2]>>
          /\ HdrClass(mem', ret) = IF SmallRequest(n) THEN ClassOf(n) ELSE -1
          /\ my_arena'[t][1].free_lists =
                 IF SmallRequest(n)
                 THEN [my_arena'[t][1].free_lists EXCEPT ![ClassOf(n)] = LoadWord(mem', ret)]
                 ELSE my_arena'[t][1].free_lists

Returns(fn) == last.fn = "none" /\ last'.fn = fn

(* C9: numalloc_realloc(p, 0) with p non-null returns NULL and does what    *)
(* numalloc_free(p) does; numalloc_realloc(NULL, n) returns what numalloc(n) *)
(* returns and does to the thread cache, the counters and the pools what     *)
(* numalloc(n) does, for every n including 0.                                *)
C9_ReallocEdgeCases ==
    [][/\ Returns("free") /\ my_arena[last'.t] # <<>> => FreeEffect(last'.t, last'.a)
       /\ Returns("realloc") /\ last'.a # NULL /\ last'.b = 0 =>
             last'.ret = NULL /\ FreeEffect(last'.t, last'.a)
       /\ Returns("numalloc") => AllocEffect(last'.t, last'.a, last'.ret)
       /\ Returns("realloc") /\ last'.a = NULL =>
             AllocEffect(last'.t, last'.b, last'.ret)]_vars

\* realloc(p, 0) of a small block returned NULL and p is on top of the
\* caller's free stack of its class, over the blocks left of the refill
C9_Witness ==
    /\ last.fn = "realloc" /\ last.a # NULL /\ last.b = 0 /\ last.ret = NULL
    /\ HdrClass(mem, last.a) >= 0
    /\ my_arena[last.t][1].free_lists[HdrClass(mem, last.a)] = last.a
    /\ LoadWord(mem, last.a) # NULL
    /\ \A h \in held : h.ptr # last.a

(* ---- C11 ---- *)
\* C11: a numalloc_init made while the allocator is initialised returns -1
\* and leaves the topology, every node pool (base address, total size, used),
\* the initialised flag, the mappings and the memory as they were.
C11_ReinitRefused ==
    [][ (Returns("init") /\ g_initialized # 0)
        => /\ last'.ret = -1
           /\ UNCHANGED <<g_initialized, g_topology, g_node_pools, maps, mem>> ]_vars

\* a second init was refused while a pool had handed out a batch
C11_Witness ==
    /\ last.fn = "init"
    /\ last.ret = -1
    /\ g_initialized = 1
    /\ \E i \in Pools : g_node_pools[i][1].used > 0

(* ---- C12 ---- *)
\* C12: whenever the allocator is not initialised (before the first
\* successful init, after a cleanup until the next successful init), numalloc
\* returns null, creates no thread cache and changes no counter; the pools,
\* the mappings and the memory stay as they were too.
C12_UninitialisedNumalloc ==
    [][ (Returns("numalloc") /\ g_initialized = 0)
        => /\ last'.ret = NULL
           /\ UNCHANGED <<my_arena, tally, g_node_pools, maps, mem, held>> ]_vars

\* after a cleanup a request was refused although the caller's cache still
\* had a block of that class on its stack
C12_Witness ==
    /\ last.fn = "numalloc"
    /\ last.a = 16
    /\ last.ret = NULL
    /\ g_initialized = 0
    /\ my_arena[1] # <<>>
    /\ my_arena[1][1].free_lists[0] # NULL
    /\ my_arena[1][1].stats_allocs = 1

(* ---- C13 ---- *)
\* C13: a small request that misses the thread cache goes to the pool of
\* the cache's home node.  When the pool cannot fit a whole batch of the
\* class the call returns null with the pool (used, mutex free), the thread
\* caches and the counters as they were, and says so on stderr; when the
\* batch fits the refill goes on and the call returns a block, so a smaller
\* class is still served from what is left.  The miss itself changes
\* nothing in the cache: at most it creates an empty one.
C13_ExhaustedPool ==
    [][ \A t \in Threads :
          /\ (pc[t] = "idle" /\ pc'[t] = "lock")
              => /\ \/ my_arena'[t] = my_arena[t]
                    \/ /\ my_arena[t] = <<>>
                       /\ \E n \in Pools : my_arena'[t] = <<create_arena(n)>>
                 /\ my_arena'[t][1].free_lists[frame'[t].cls] = NULL
                 /\ g_node_pools' = g_node_pools
          /\ (pc[t] = "lock" /\ pc'[t] # "lock")
              => LET node == my_arena[t][1].numa_node
                     pool == g_node_pools[node][1]
                 IN  IF pool.used + BatchBytes(frame[t].cls) > pool.total_size
                     THEN /\ last'.t = t
                          /\ last'.ret = NULL
                          /\ UNCHANGED <<my_arena, tally, g_node_pools, mem, maps, held>>
                          /\ g_node_pools'[node][1].lock = 0
                          /\ node \in announced'
                     ELSE pc'[t] = "locked"
          /\ (pc[t] = "carve" /\ pc'[t] # "carve")
              => /\ last'.t = t
                 /\ last'.ret # NULL
                 /\ ~crashed' ]_vars

\* node 0 was reported exhausted to a request of class 1, and thread 2's
\* later request of class 0 took the rest of the pool
C13_Witness ==
    /\ last.fn = "numalloc"
    /\ last.t = 2
    /\ last.a = 16
    /\ last.ret # NULL
    /\ 0 \in announced
    /\ my_arena[2][1].numa_node = 0
    /\ g_node_pools[0][1].used = PoolSize
    /\ g_node_pools[0][1].lock = 0
    /\ \A t \in Threads : pc[t] = "idle"

(* ---- C14 ---- *)
\* the sizes of the pair: both small classes of the two-thread runs, a
\* large block
PairSizes == {16, 17, 2049}

\* what the platform may answer during the pair
PairAnswers(t, n) ==
    { <<cpu, calloc_ok, mmap_ok>> :
        cpu \in (IF my_arena[t] = <<>> THEN CpuAnswers ELSE {0}),
        calloc_ok \in (IF my_arena[t] = <<>> THEN BOOLEAN ELSE {TRUE}),
        mmap_ok \in (IF get_size_class(n) < 0 THEN BOOLEAN ELSE {TRUE}) }

\* numalloc_free(numalloc(n)) by thread t in the current state
Allocated(t, n, x) ==
    numalloc(mem, maps, g_node_pools, g_initialized, my_arena[t], g_topology, n,
             x[1], x[2], x[3])

PairOf(t, n, x) ==
    LET r == Allocated(t, n, x)
        f == numalloc_free(r.m, r.mp, r.ar, g_topology, r.ptr, 0, TRUE)
    IN  [ptr |-> r.ptr, pools |-> r.pools, mp |-> f.mp, ar |-> f.ar]

\* the states the pair is run in: initialised, no call in progress
PairStart == g_initialized # 0 /\ Quiet /\ \A t \in Threads : pc[t] = "idle"

\* the pair's numalloc refills: a small class whose stack is empty, a home
\* pool with room for a batch
Refills(t, n, ptr) ==
    /\ ptr # NULL
    /\ get_size_class(n) >= 0
    /\ \/ my_arena[t] = <<>>
       \/ my_arena[t][1].free_lists[get_size_class(n)] = NULL

\* C14 as stated: for every n >= 1 and every reachable state of an
\* initialised allocator, numalloc_free(numalloc(n)) by one thread leaves
\* the node pools (watermarks included) and the live mappings as they were;
\* the caches of the other threads are out of the reach of both calls.
C14_PairLeavesState ==
    PairStart =>
        \A t \in Threads, n \in PairSizes : \A x \in PairAnswers(t, n) :
            LET p == PairOf(t, n, x)
            IN  p.pools = g_node_pools /\ p.mp = maps

\* C14 amended: the pair leaves the live mappings as they were, and the node
\* pools too unless its numalloc missed the cache and refilled: then used of
\* the home pool of the caller's cache has grown by one batch of the class,
\* 64 * (class size + header), and nothing else of any pool has changed.
\* The home node of a cache that existed is kept.
C14_PairLeavesStateButRefill ==
    PairStart =>
        \A t \in Threads, n \in PairSizes : \A x \in PairAnswers(t, n) :
            LET p == PairOf(t, n, x)
            IN  /\ p.mp = maps
                /\ my_arena[t] # <<>> => p.ar[1].numa_node = my_arena[t][1].numa_node
                /\ IF Refills(t, n, p.ptr)
                   THEN LET node == p.ar[1].numa_node
                        IN  p.pools = [g_node_pools EXCEPT ![node] =
                              <<[g_node_pools[node][1] EXCEPT
                                   !.used = @ + BatchBytes(get_size_class(n))]>>]
                   ELSE p.pools = g_node_pools

\* a state with a live block and a free stack in which a pair refills, another
\* is served from the cache, and a third maps and unmaps a large block
C14_Witness ==
    /\ PairStart
    /\ held # {}
    /\ \E t \in Threads : Refills(t, 17, PairOf(t, 17, <<0, TRUE, TRUE>>).ptr)
    /\ \E t \in Threads :
          /\ my_arena[t] # <<>>
          /\ my_arena[t][1].free_lists[0] # NULL
          /\ PairOf(t, 16, <<0, TRUE, TRUE>>).ptr = my_arena[t][1].free_lists[0]
          /\ PairOf(t, 2049, <<0, TRUE, TRUE>>).ptr # NULL

(* ---- C15 ---- *)
\* the allocator as thread t sees it between calls
Seen(t) == [ptr |-> NULL, m |-> mem, mp |-> maps, pools |-> g_node_pools, ar |-> my_arena[t]]

\* thread t, which has or gets a cache, frees ptr / asks for n bytes
ThenFree(st, ptr) ==
    LET f == numalloc_free(st.m, st.mp, st.ar, g_topology, ptr, 0, TRUE)
    IN  [ptr |-> NULL, m |-> f.m, mp |-> f.mp, pools |-> st.pools, ar |-> f.ar]

ThenAlloc(st, n) ==
    numalloc(st.m, st.mp, st.pools, g_initialized, st.ar, g_topology, n, 0, TRUE, TRUE)

\* the small blocks thread t may free
SmallHeld == {h \in held : Usable(h) /\ HdrClass(mem, h.ptr) >= 0}

\* the request sizes of a class: the smallest and the largest
SizesOf(c) == {(IF c = 0 THEN 0 ELSE SizeClassSize(c - 1)) + 1, SizeClassSize(c)}

\* C15: after a thread frees a small block p, its next numalloc for any
\* size of p's class returns p: each class stack is last in, first out.
\* Hence two blocks freed one after the other come back, the last freed
\* first when they share a class and each to the request of its own class
\* when they do not, and no pool is touched by the second round.
C15_LastFreedFirst ==
    PairStart =>
        \A t \in Threads :
            /\ \A h \in SmallHeld : \A n \in SizesOf(HdrClass(mem, h.ptr)) :
                  LET r == ThenAlloc(ThenFree(Seen(t), h.ptr), n)
                  IN  r.ptr = h.ptr /\ r.pools = g_node_pools
            /\ \A h1 \in SmallHeld : \A h2 \in SmallHeld \ {h1} :
                  LET c1 == HdrClass(mem, h1.ptr)
                      c2 == HdrClass(mem, h2.ptr)
                      freed == ThenFree(ThenFree(Seen(t), h1.ptr), h2.ptr)
                      fst == ThenAlloc(freed, SizeClassSize(c1))
                      snd == ThenAlloc(fst, SizeClassSize(c2))
                  IN  /\ {fst.ptr, snd.ptr} = {h1.ptr, h2.ptr}
                      /\ fst.ptr = (IF c1 = c2 THEN h2.ptr ELSE h1.ptr)
                      /\ snd.pools = g_node_pools

\* a thread holds a block of class 0 and one of class 1, carved from the
\* pools of two nodes, and its own stack of class 0 is not empty
C15_Witness ==
    /\ PairStart
    /\ \E h1 \in SmallHeld, h2 \in SmallHeld :
          /\ HdrClass(mem, h1.ptr) = 0
          /\ HdrClass(mem, h2.ptr) = 1
          /\ my_arena[h1.by] # <<>>
          /\ my_arena[h1.by][1].free_lists[0] # NULL

(* ---- C16 ---- *)
\* C16: get_size_class(n) is the smallest index i with SIZE_CLASS_SIZES[i]
\* >= n for every n in 1..2048 and -1 for every n > 2048; so a request of
\* exactly s_i goes to class i and one of s_i + 1 to class i + 1, or to the
\* large path when i is the last class.
C16_SizeClassLookup ==
    last.fn = "get_size_class" =>
        /\ SmallRequest(last.a) => last.ret = ClassOf(last.a)
        /\ last.a > SIZE_CLASS_SIZES[SIZE_CLASSES] => last.ret = -1
        /\ \A i \in Classes :
              /\ last.a = SIZE_CLASS_SIZES[i + 1] => last.ret = i
              /\ last.a = SIZE_CLASS_SIZES[i + 1] + 1
                    => last.ret = (IF i = SIZE_CLASSES - 1 THEN -1 ELSE i + 1)

\* the largest small request was looked up and went to the last class
C16_Witness ==
    /\ last.fn = "get_size_class"
    /\ last.a = SIZE_CLASS_SIZES[SIZE_CLASSES]
    /\ last.ret = SIZE_CLASSES - 1

(* ---- C17 ---- *)
ArenaAllocs == {"arena_alloc", "arena_alloc_aligned"}

\* C17: in every reachable state of an arena, after any sequence of
\* allocations, resets and set_position calls, ARENA_HEADER_SIZE <= position
\* <= commit_position <= reserve_size, and an allocation call never leaves
\* the position lower than it found it.
C17_PositionInRange ==
    allocator # <<>> =>
        /\ ARENA_HEADER_SIZE <= allocator[1].position
        /\ allocator[1].position <= allocator[1].commit_position
        /\ allocator[1].commit_position <= allocator[1].reserve_size
        /\ last.fn \in ArenaAllocs => allocator[1].position >= last.old

(* ---- C18 ---- *)
\* the requests replayed after a restore: (size, alignment)
ReplayArgs == { <<16, DEFAULT_ALIGNMENT>>, <<1, 64>>, <<PAGE_SIZE, DEFAULT_ALIGNMENT>> }

\* two allocations in a row, the platform granting every commit
RunTwo(al, m, mp, x, y) ==
    LET r1 == arena_alloc_aligned(al, m, mp, x[1], x[2], TRUE)
        r2 == arena_alloc_aligned(r1.al, r1.m, r1.mp, y[1], y[2], TRUE)
    IN  <<r1, r2>>

ReadsZero(m, ptr, len) == ptr # NULL => Contents(m, ptr, len) = NoSnap

\* C18: p0 was read with arena_get_position and allocations were made since.
\* arena_set_position(p0) puts the position back to p0, and the allocations
\* made next return the addresses they would have returned had they been
\* made when p0 was read, each slot reading zero whatever the caller wrote
\* in the released slots.
C18_RestoreReplays ==
    (allocator # <<>> /\ marked # <<>> /\ Quiet) =>
        LET p0 == marked[1].position
            restored == arena_set_position(allocator, p0)
            then_mp == Committed(maps, marked[1].base, marked[1].commit_position)
        IN  /\ arena_get_position(restored) = p0
            /\ restored = <<[allocator[1] EXCEPT !.position = p0]>>
            /\ \A x \in ReplayArgs, y \in ReplayArgs :
                  LET now == RunTwo(restored, mem, maps, x, y)
                      then == RunTwo(marked, mem, then_mp, x, y)
                  IN  /\ now[1].ret = then[1].ret
                      /\ now[2].ret = then[2].ret
                      /\ now[2].al[1].position = then[2].al[1].position
                      /\ ReadsZero(now[1].m, now[1].ret, x[1])
                      /\ ReadsZero(now[2].m, now[2].ret, y[1])

\* the position was put back to the one read before, below slots the caller
\* has written to, after the allocations had made the arena commit more
C18_Witness ==
    /\ allocator # <<>>
    /\ marked # <<>>
    /\ last.fn = "arena_set_position"
    /\ last.a = marked[1].position
    /\ last.old > last.a
    /\ allocator[1].position = last.a
    /\ allocator[1].commit_position > marked[1].commit_position
    /\ \E a \in DOMAIN mem : a >= allocator[1].base + allocator[1].position

(* ---- C19 ---- *)
SlotsApart(x, y) == x.ptr + x.n <= y.ptr \/ y.ptr + y.n <= x.ptr

\* C19: the slots [ptr, ptr + n) handed out by successful allocations and
\* not released by a reset or a lower position are pairwise disjoint, lie
\* inside [base + ARENA_HEADER_SIZE, base + reserve_size) and inside the
\* committed prefix, readable and writable, and so never overlap the
\* arena's own header.
C19_SlotsApart ==
    allocator # <<>> =>
        LET base == allocator[1].base
        IN  /\ \A x \in slots :
                  /\ x.n > 0
                  /\ x.ptr >= base + ARENA_HEADER_SIZE
                  /\ x.ptr + x.n <= base + allocator[1].reserve_size
                  /\ x.ptr + x.n <= base + allocator[1].commit_position
                  /\ RangeMapped(maps, x.ptr, x.n)
            /\ \A x \in slots : \A y \in slots \ {x} : SlotsApart(x, y)

\* three live slots, one aligned to 64 bytes, one past the page the arena
\* was created with
C19_Witness ==
    /\ allocator # <<>>
    /\ Cardinality(slots) = 3
    /\ \E x \in slots : (x.ptr - allocator[1].base) % 64 = 0 /\ x.n = 1
    /\ \E x \in slots : x.ptr + x.n > allocator[1].base + allocator[1].commit_size

(* ---- C20 ---- *)
\* the call asked for more than the reservation has left: the sum is the
\* mathematical one, whatever the width of size_t
PastReserve(l) == align_up(l.old, l.b) + l.a > allocator[1].reserve_size

\* C20: an allocation of n bytes with align_up(position, a) + n >
\* reserve_size returns null and leaves position and commit_position
\* unchanged, for every n of type size_t; it does not abort and writes no
\* memory.
C20_RefusedPastReserve ==
    (allocator # <<>> /\ last.fn \in ArenaAllocs /\ PastReserve(last)) =>
        /\ ~crashed
        /\ last.ret = NULL
        /\ allocator[1].position = last.old
        /\ allocator[1].commit_position = last.cap
        /\ Contents(mem, allocator[1].base, allocator[1].reserve_size) = last.snap

(* ---- C21 ---- *)
\* C21: every successful arena allocation returns n bytes that all read
\* zero, also when the slot lies over memory the caller wrote before an
\* arena_reset or an arena_set_position.
C21_SlotReadsZero ==
    (last.fn \in ArenaAllocs /\ last.ret # NULL) =>
        /\ ~crashed
        /\ Contents(mem, last.ret, last.a) = NoSnap

\* a slot was returned over bytes the caller had written before the call
C21_Witness ==
    /\ allocator # <<>>
    /\ last.fn \in ArenaAllocs
    /\ last.ret # NULL
    /\ \E k \in DOMAIN last.snap :
          /\ allocator[1].base + k >= last.ret
          /\ allocator[1].base + k < last.ret + last.a

(* ---- C22 ---- *)
PowerOfTwo(a) == a > 0 /\ BitAnd(a, a - 1) = 0

\* C22: for every power-of-two alignment a and every arena state, a
\* successful arena_alloc_aligned(arena, n, a) returns an address that is a
\* multiple of a.
C22_AddressAligned ==
    (last.fn \in ArenaAllocs /\ last.ret # NULL /\ PowerOfTwo(last.b)) =>
        last.ret % last.b = 0

(* ---- C23 ---- *)
\* C23: arena_set_position(arena, p) sets position to p when
\* ARENA_HEADER_SIZE <= p <= reserve_size and otherwise leaves the arena
\* unchanged; it never changes commit_position or reserve_size, nor the
\* arena's memory, and with p the current position it changes nothing.
C23_SetPosition ==
    [][ last'.fn = "arena_set_position" =>
          /\ mem' = mem /\ maps' = maps /\ crashed' = crashed
          /\ IF allocator = <<>> THEN allocator' = <<>>
             ELSE LET al == allocator[1]
                      p  == last'.a
                  IN  /\ allocator' # <<>>
                      /\ allocator'[1].commit_position = al.commit_position
                      /\ allocator'[1].reserve_size = al.reserve_size
                      /\ IF ARENA_HEADER_SIZE <= p /\ p <= al.reserve_size
                         THEN allocator'[1] = [al EXCEPT !.position = p]
                         ELSE allocator' = allocator
                      /\ (p = arena_get_position(allocator) => allocator' = allocator) ]_vars

\* a position in range that was not the current one has been set
C23_Witness ==
    /\ allocator # <<>>
    /\ last.fn = "arena_set_position"
    /\ last.a # last.old
    /\ allocator[1].position = last.a

(* ---- C24 ---- *)
\* x rounded up to a multiple of the page size, in the integers
PageCeil(x) == ((x + PAGE_SIZE - 1) \div PAGE_SIZE) * PAGE_SIZE

Least(x, y) == IF x < y THEN x ELSE y

\* C24: arena_create(R, G) returns null when R = 0 or G = 0 or when the
\* reserve or the commit step fails, and then leaves no reservation behind;
\* when it succeeds reserve_size is R rounded up to the page size,
\* commit_size is G rounded up to the page size and then clamped to
\* reserve_size, position = ARENA_HEADER_SIZE and commit_position =
\* commit_size.  It does one or the other.
C24_Create ==
    last.fn = "arena_create" =>
        /\ ~crashed
        /\ (last.a = 0 \/ last.b = 0) => last.ret = NULL
        /\ last.ret = NULL => allocator = <<>> /\ maps = {}
        /\ last.ret # NULL =>
              /\ allocator # <<>>
              /\ allocator[1] = ArenaRec(last.ret, PageCeil(last.a),
                                         Least(PageCeil(last.b), PageCeil(last.a)),
                                         ARENA_HEADER_SIZE,
                                         Least(PageCeil(last.b), PageCeil(last.a)))

(* ---- C25 ---- *)
Holders(p) == {t \in Threads : p \in mcall[t].got}

\* C25: under any interleaving of memalloc malloc and free calls of several
\* threads, also of calls that race to be the first, the global lock is
\* initialised exactly once and before any thread enters a critical
\* section, at most one thread at a time is inside a critical section, where
\* the block list is read and written, and no block is held by two callers.
C25_ThreadSafe ==
    /\ global_malloc_lock.inits <= 1
    /\ \A t \in Threads : InCritical(t) => global_malloc_lock.inits >= 1
    /\ Cardinality({t \in Threads : InCritical(t)}) <= 1
    /\ \A t \in Threads : \A p \in mcall[t].got : Holders(p) = {t}

(* ---- C26 ---- *)
\* the block list in order, from curr on
RECURSIVE Chain(_, _)
Chain(h, curr) ==
    IF curr = NULL THEN <<>>
    ELSE IF curr \notin DOMAIN h THEN <<curr>>
    ELSE <<curr>> \o Chain(h, h[curr].next)

\* the positions in the list of the free blocks of at least n bytes
Fitting(h, hd, n) ==
    {i \in 1..Len(Chain(h, hd)) :
        h[Chain(h, hd)[i]].is_free = 1 /\ h[Chain(h, hd)[i]].size >= n}

\* C26: malloc(n) with n > 0 returns the first block in list order that is
\* free and of recorded size >= n and marks it in use, mapping nothing; a
\* new block is mapped, and appended at the tail, only when no block fits.
C26_FirstFit ==
    [][ (last'.fn = "memalloc.malloc" /\ last'.a > 0) =>
          LET n   == last'.a
              fit == Fitting(hdr, head, n)
              new == last'.ret - MEM_HEADER_SIZE
          IN  IF fit # {}
              THEN LET first == Chain(hdr, head)[CHOOSE i \in fit : \A j \in fit : i <= j]
                   IN  /\ last'.ret = first + MEM_HEADER_SIZE
                       /\ hdr' = [hdr EXCEPT ![first].is_free = 0]
                       /\ maps' = maps /\ head' = head /\ tail' = tail
              ELSE \/ /\ last'.ret = NULL
                      /\ hdr' = hdr /\ maps' = maps /\ head' = head /\ tail' = tail
                   \/ /\ last'.ret # NULL
                      /\ new \notin DOMAIN hdr
                      /\ Chain(hdr', head') = Chain(hdr, head) \o <<new>>
                      /\ tail' = new
                      /\ hdr'[new] = [size |-> n, is_free |-> 0, next |-> NULL]
                      /\ \A a \in DOMAIN hdr :
                            /\ hdr'[a].size = hdr[a].size
                            /\ hdr'[a].is_free = hdr[a].is_free ]_vars

\* a request was served by a block freed earlier that is not the last of the
\* list, while a later free block would have fitted too
C26_Witness ==
    /\ last.fn = "memalloc.malloc"
    /\ last.ret # NULL
    /\ last.ret - MEM_HEADER_SIZE # tail
    /\ Fitting(hdr, hdr[last.ret - MEM_HEADER_SIZE].next, last.a) # {}

(* ---- C27 ---- *)
\* the list is well formed: every block reachable from head is mapped, tail
\* is the last of them, head and tail are null together
ListShape ==
    LET chain == Chain(hdr, head)
    IN  /\ \A i \in 1..Len(chain) : chain[i] \in DOMAIN hdr /\ Mapped(maps, chain[i])
        /\ (head = NULL) <=> (tail = NULL)
        /\ tail = (IF chain = <<>> THEN NULL ELSE chain[Len(chain)])

\* C27: free(p) releases memory to the OS only when p's block is the tail of
\* the list, and then unlinks it: tail becomes its predecessor, or head =
\* tail = NULL when it was the only block; for any other block it only sets
\* is_free.  After every call tail is the last block reachable from head,
\* head is NULL exactly when tail is NULL, and no released block is
\* reachable from head.
C27_FreeTail ==
    [][ /\ ListShape'
        /\ last'.fn = "memalloc.free" =>
              LET header == last'.a - MEM_HEADER_SIZE
                  chain  == Chain(hdr, head)
              IN  IF header = tail
                  THEN /\ ~Mapped(maps', header)
                       /\ header \notin DOMAIN hdr'
                       /\ Chain(hdr', head') = SubSeq(chain, 1, Len(chain) - 1)
                       /\ \A a \in DOMAIN hdr' :
                             /\ Mapped(maps', a)
                             /\ hdr'[a].size = hdr[a].size
                             /\ hdr'[a].is_free = hdr[a].is_free
                  ELSE /\ maps' = maps
                       /\ hdr' = [hdr EXCEPT ![header].is_free = 1]
                       /\ head' = head /\ tail' = tail ]_vars

\* the tail of a list of several blocks has been released, and the block
\* before it is the tail now
C27_Witness ==
    /\ last.fn = "memalloc.free"
    /\ ~Mapped(maps, last.a)
    /\ tail # NULL
    /\ head # tail

(* ---- C30 ---- *)
\* the free stack from p on as a sequence, at most fuel links followed
RECURSIVE Links(_, _, _)
Links(m, p, fuel) ==
    IF p = NULL \/ fuel = 0 THEN <<>>
    ELSE <<p>> \o Links(m, LoadWord(m, p), fuel - 1)

InRefill(t) == pc[t] \in {"lock", "locked", "carve"}

\* the blocks of the batch that starts at batch_start
BatchBlocks(batch_start, i) ==
    {batch_start + k * (SIZE_CLASS_SIZES[i + 1] + HEADER_SIZE) + HEADER_SIZE :
        k \in 0..(REFILL_BATCH_SIZE - 1)}

\* C30: a slow-path refill for class i is entered only when the class-i
\* stack of the caller is empty; it advances the home pool's used by exactly
\* 64 * (s_i + header size), writes 64 headers, returns one block and leaves
\* exactly the other 63 on the class-i stack: the returned block is not on
\* the stack, no block is on it twice, it has no cycle and ends in null.
C30_Refill ==
    [][ \A t \in Threads :
          LET i    == frame[t].cls
              node == my_arena[t][1].numa_node
              pool == g_node_pools[node][1]
          IN  /\ InRefill(t) => my_arena[t][1].free_lists[i] = NULL
              /\ (pc[t] = "locked" /\ pc'[t] = "carve") =>
                    /\ frame[t].bs = pool.base_addr + pool.used
                    /\ g_node_pools'[node][1].used =
                          pool.used + 64 * (SIZE_CLASS_SIZES[i + 1] + HEADER_SIZE)
                    /\ g_node_pools'[node][1].used <= pool.total_size
              /\ (pc[t] = "carve" /\ pc'[t] = "idle" /\ ~crashed') =>
                    LET blocks == BatchBlocks(frame[t].bs, i)
                        stack  == Links(mem', my_arena'[t][1].free_lists[i], REFILL_BATCH_SIZE + 1)
                    IN  /\ last'.ret \in blocks
                        /\ \A b \in blocks :
                              /\ HdrSize(mem', b) = SIZE_CLASS_SIZES[i + 1]
                              /\ HdrClass(mem', b) = i
                              /\ HdrNode(mem', b) = node
                              /\ b + SIZE_CLASS_SIZES[i + 1] <= pool.base_addr + pool.used
                        /\ Len(stack) = REFILL_BATCH_SIZE - 1
                        /\ {stack[k] : k \in 1..Len(stack)} = blocks \ {last'.ret}
                        /\ LoadWord(mem', stack[Len(stack)]) = NULL ]_vars

\* a refill has just returned a block to a caller whose cache holds the
\* other 63 of the batch
C30_Witness ==
    /\ last.fn = "numalloc"
    /\ last.ret # NULL
    /\ \E i \in Classes :
          /\ Cardinality(Stack(last.t, i)) = REFILL_BATCH_SIZE - 1
          /\ last.ret \in BatchBlocks(g_node_pools[StackHome(last.t)][1].base_addr, i)

(* ---- C29 ---- *)
\* the bytes from p to the end of p's own block: of its class size for a
\* small block, of its mapping for a large one
Room(p) ==
    IF HdrClass(mem, p) >= 0 THEN SIZE_CLASS_SIZES[HdrClass(mem, p) + 1]
    ELSE LET own == {r \in maps : r.base = HeaderOf(p)}
         IN  IF own = {} THEN 0 ELSE (CHOOSE r \in own : TRUE).len - HEADER_SIZE

\* C29: every non-null pointer p returned by numalloc(n), by
\* numalloc_calloc(num, size) with n = num * size or by numalloc_realloc(_, n)
\* has at least n bytes from p on inside p's own block or mapping, for
\* every n of type size_t, also when a resize returns the old pointer and
\* when n + header size is computed for a large request.
C29_RoomForRequest ==
    (last.fn \in {"numalloc", "calloc", "realloc"} /\ last.ret # NULL) =>
        AskedBytes(last) <= Room(last.ret)

(* ---- C28 ---- *)
InLivePool(p) ==
    \E n \in Pools : /\ p >= g_node_pools[n][1].base_addr
                     /\ p < g_node_pools[n][1].base_addr + g_node_pools[n][1].total_size

InLiveLarge(p) == \E r \in maps : r.base = HeaderOf(p) /\ ~InLivePool(r.base)

\* C28: while the allocator is initialised, after a numalloc_cleanup and a
\* new successful numalloc_init as well, every pointer numalloc returns to a
\* thread lies inside a live node pool or a live large mapping, and every
\* block on a thread cache's free stack lies inside a live node pool: no
\* stack refers to memory of a pool that was released.
C28_CachesFollowPools ==
    g_initialized = 1 =>
        /\ (last.fn = "numalloc" /\ last.ret # NULL) =>
               InLivePool(last.ret) \/ InLiveLarge(last.ret)
        /\ \A p \in AllStacked : InLivePool(p)

(* ---- C31 ---- *)
\* numalloc_free(p) by thread t has pushed p on the class-i stack of t's
\* cache, which exists now, and has changed nothing else of the cache
Pushed(t, p, i) ==
    /\ my_arena'[t] # <<>>
    /\ my_arena'[t][1].free_lists[i] = p
    /\ LoadWord(mem', p) = (IF my_arena[t] = <<>> THEN NULL
                            ELSE my_arena[t][1].free_lists[i])
    /\ \A j \in Classes \ {i} :
          my_arena'[t][1].free_lists[j] = (IF my_arena[t] = <<>> THEN NULL
                                          ELSE my_arena[t][1].free_lists[j])
    /\ my_arena[t] # <<>> => my_arena'[t][1].numa_node = my_arena[t][1].numa_node

\* the free touched no cache but the caller's, and no pool or mapping
OthersKept(t) ==
    /\ \A u \in Threads \ {t} : my_arena'[u] = my_arena[u]
    /\ g_node_pools' = g_node_pools
    /\ maps' = maps

SmallFree == last'.fn = "free" /\ HdrClass(mem, last'.a) >= 0

\* C31 as stated: numalloc_free(p) of a small block always pushes p on the
\* class stack, indexed by the header's class, of the calling thread's
\* cache, creating the cache if the thread has none, whichever thread
\* allocated p; every other cache and every node pool stay as they were.
C31_FreeAlwaysPushes ==
    [][ SmallFree =>
          /\ Pushed(last'.t, last'.a, HdrClass(mem, last'.a))
          /\ OthersKept(last'.t) ]_vars

\* C31, amended: the same, unless the calling thread has no cache and none
\* can be created for it; then the call returns having changed nothing,
\* and the block is on no stack.
C31_FreePushesUnlessNoCache ==
    [][ SmallFree =>
          /\ OthersKept(last'.t)
          /\ \/ Pushed(last'.t, last'.a, HdrClass(mem, last'.a))
             \/ /\ my_arena[last'.t] = <<>>
                /\ my_arena'[last'.t] = <<>>
                /\ mem' = mem ]_vars

\* a thread has freed a block another thread allocated, and the block is
\* the head of the caller's stack
C31_Witness ==
    /\ last.fn = "free"
    /\ last.a \in migrated
    /\ my_arena[last.t] # <<>>
    /\ \E i \in Classes : my_arena[last.t][1].free_lists[i] = last.a

(* ---- C32 ---- *)
LockOf(n) == g_node_pools[n][1].lock

\* thread t is blocked in pthread_mutex_lock
Waiting(t) == pc[t] = "lock" /\ LockOf(StackHome(t)) # 0

\* C32: the fast paths take no mutex and a refill takes only the mutex of
\* the pool of the calling cache's home node: a pool mutex is held only by
\* a thread of that node that is reserving a batch, a thread waits only for
\* such a thread of its own node, and a call that does not go through the
\* refill leaves every pool and its mutex as they were.
C32_LocksStayHome ==
    [][ /\ \A n \in Pools : LockOf(n) # 0 =>
              /\ pc[LockOf(n)] = "locked"
              /\ StackHome(LockOf(n)) = n
        /\ \A t \in Threads : Waiting(t) =>
              /\ LockOf(StackHome(t)) # t
              /\ StackHome(LockOf(StackHome(t))) = StackHome(t)
        /\ \A t \in Threads :
              (pc[t] = "idle" /\ pc'[t] = "idle" /\ last'.t = t
                 /\ last'.fn \in {"numalloc", "free", "calloc", "realloc"}) =>
                  g_node_pools' = g_node_pools
        /\ \A n \in Pools : g_node_pools'[n] # <<>> /\ g_node_pools'[n][1].lock # LockOf(n) =>
              \E t \in Threads : /\ InRefill(t)
                                  /\ StackHome(t) = n
                                  /\ t \in {LockOf(n), g_node_pools'[n][1].lock} ]_vars

\* a thread waits for the mutex of its pool while the other thread, of the
\* same node, is reserving a batch
C32_Witness ==
    \E t \in Threads : Waiting(t)

(* ---- C33 ---- *)
\* C33: under fair scheduling every call of numalloc, numalloc_free,
\* numalloc_calloc and numalloc_realloc by any thread returns: a call that
\* is in progress, waiting for a pool mutex or holding it, is over at some
\* later time (unless the process has died meanwhile).
C33_CallsReturn ==
    \A t \in Threads : (pc[t] # "idle") ~> (pc[t] = "idle" \/ crashed)

\* one thread holds the mutex of a pool and the other one waits for it
C33_Witness ==
    \E t \in Threads, u \in Threads :
        /\ pc[t] = "locked"
        /\ pc[u] = "lock"
        /\ StackHome(t) = StackHome(u)

(* ---- C34 ---- *)
\* numalloc_init on two nodes where mmap gives the first pool only, or both
PartialArgs == { <<PoolSize, <<TwoNodes>>, 1>>, <<PoolSize, <<TwoNodes>>, 2>> }

NextPartial ==
    \/ \E x \in PartialArgs : NumallocInit(1, x[1], x[2], x[3])
    \/ \E t \in Threads : NumallocCleanup(t)
    \/ \E t \in Threads : Numalloc(t, 16)
    \/ \E t \in Threads : SlowLock(t)
    \/ \E t \in Threads : SlowBump(t)
    \/ \E t \in Threads : SlowCarve(t)
    \/ \E t \in Threads, h \in held : NumallocFree(t, h)
    \/ Return

SpecPartial == Init /\ [][NextPartial]_vars

\* numalloc_init has just returned -1 and the allocator is not initialised
InitFailed == last.fn = "init" /\ last.ret = -1 /\ g_initialized = 0

\* C34: when numalloc_init returns -1 the allocator is in the uninitialised
\* state: no topology record is kept, no node pool is registered in the
\* table and no pool memory stays mapped.
C34_FailedInitLeavesNothing ==
    InitFailed => /\ g_topology = <<>>
                  /\ g_node_pools = NoPools
                  /\ maps = {}

(* ---- C35 ---- *)
\* a realloc of a live block to a larger size has just returned NULL
GrowFailed(l) == l.fn = "realloc" /\ l.a # NULL /\ l.b > l.old /\ l.ret = NULL

\* the block at p is a member of the free stack that starts at top
RECURSIVE OnStack(_, _, _, _)
OnStack(m, top, p, fuel) ==
    IF top = NULL \/ fuel = 0 THEN FALSE
    ELSE top = p \/ OnStack(m, LoadWord(m, top), p, fuel - 1)

StackFuel == 2 * REFILL_BATCH_SIZE + 2

\* C35: when numalloc_realloc needs a larger block and the new allocation
\* fails, it returns NULL and the old block stays allocated: its header and
\* contents, and all other memory, are as before the call, it is on no free
\* stack of any cache, and its memory stays mapped.
C35_FailedGrowKeepsOld ==
    [][ (last.fn = "none" /\ GrowFailed(last')) =>
           /\ mem' = mem
           /\ maps' = maps
           /\ held' = held
           /\ \E h \in held' : h.ptr = last'.a
           /\ Contents(mem', last'.a, last'.cap) = last'.snap
           /\ ReallocOldSize(mem', last'.a) = last'.old
           /\ \A u \in Threads : my_arena'[u] # <<>> =>
                 \A c \in 0..(SIZE_CLASSES - 1) :
                     ~OnStack(mem', my_arena'[u][1].free_lists[c], last'.a, StackFuel) ]_vars

\* a realloc from class 0 to class 1 failed because the pool was exhausted
C35_Witness ==
    /\ GrowFailed(last)
    /\ ~crashed
    /\ \E h \in held : h.ptr = last.a

(* ---- C36 ---- *)
\* two nodes and two configured CPUs, numa_node_of_cpu(1) = -1 (the CPU was
\* not online when the topology was read)
GapNodes == [num_nodes |-> 2, num_cpus |-> 2, cpu_to_node_map |-> <<0, -1>>]

NodeArgs == { <<PoolSize, <<TwoNodes>>, 2>>, <<PoolSize, <<GapNodes>>, 2>> }
NodeRequests == {16, 2049}

NextNodes ==
    \/ \E x \in NodeArgs : NumallocInit(1, x[1], x[2], x[3])
    \/ \E t \in Threads, n \in NodeRequests : Numalloc(t, n)
    \/ \E t \in Threads : SlowLock(t)
    \/ \E t \in Threads : SlowBump(t)
    \/ \E t \in Threads : SlowCarve(t)
    \/ \E t \in Threads, h \in held : NumallocFree(t, h)
    \/ Return

SpecNodes == Init /\ [][NextNodes]_vars

\* the nodes of the topology in use
Nodes == 0..(g_topology[1].num_nodes - 1)

\* node n has a pool in the table
HasPool(n) == n \in DOMAIN g_node_pools /\ g_node_pools[n] # <<>>

\* C36: once numalloc_init(P) has succeeded on N nodes, every node in
\* [0, N) has a pool in the table, of P bytes and with nothing used right
\* after the init, no pool is stored anywhere else, and every thread cache
\* has a home node in [0, N) that has a pool.
C36_PoolPerNode ==
    g_initialized = 1 =>
        /\ \A n \in Nodes : HasPool(n)
        /\ (last.fn = "init" /\ last.ret = 0) =>
              \A n \in Nodes : /\ g_node_pools[n][1].total_size = last.a
                               /\ g_node_pools[n][1].used = 0
        /\ DOMAIN g_node_pools = 0..(MAX_NUMA_NODES - 1)
        /\ \A n \in DOMAIN g_node_pools : g_node_pools[n] # <<>> => n \in Nodes
        /\ \A t \in Threads : my_arena[t] # <<>> =>
              /\ my_arena[t][1].numa_node \in Nodes
              /\ HasPool(my_arena[t][1].numa_node)

(* ---- C37 ---- *)
\* thread t has a cache on a node other than the one the CPU index it gets
\* in its later calls (0) belongs to
AwayFromHome(t) ==
    /\ my_arena[t] # <<>>
    /\ g_topology # <<>>
    /\ StackHome(t) # get_current_numa_node(g_topology, 0)

\* C37: the home node of a thread cache never changes once the cache
\* exists, whatever node the thread runs on in later calls; a refill of the
\* cache takes its batch from the pool of that node and from no other pool,
\* and every header of the batch carries that node.
C37_HomePinned ==
    [][ \A t \in Threads :
          /\ my_arena[t] # <<>> =>
                /\ my_arena'[t] # <<>>
                /\ my_arena'[t][1].numa_node = my_arena[t][1].numa_node
          /\ (pc[t] = "locked" /\ pc'[t] = "carve") =>
                LET n == StackHome(t)
                    pool == g_node_pools[n][1]
                IN  /\ frame[t].bs = pool.base_addr + pool.used
                    /\ g_node_pools'[n][1].used = pool.used + BatchBytes(frame[t].cls)
                    /\ \A k \in DOMAIN g_node_pools : k # n => g_node_pools'[k] = g_node_pools[k]
          /\ (pc[t] = "carve" /\ pc'[t] = "idle") =>
                \A p \in BatchBlocks(frame[t].bs, frame[t].cls) :
                    HdrNode(mem', p) = StackHome(t) ]_vars

\* a thread whose cache was created on node 1 by an earlier free has, in a
\* later call in which it ran on node 0, refilled class 1 from the pool of
\* node 1 and got a block of that batch
C37_Witness ==
    \E t \in Threads :
        /\ AwayFromHome(t)
        /\ my_arena[t][1].stats_frees > 0
        /\ last.t = t
        /\ last.fn = "numalloc"
        /\ last.ret # NULL
        /\ HdrClass(mem, last.ret) = 1
        /\ HdrNode(mem, last.ret) = StackHome(t)
        /\ g_node_pools[StackHome(t)][1].used = BatchBytes(1)

(* ---- C38 ---- *)
\* reservations of four and six pages, committed one page and three pages
\* at a time
CommitArgs == { <<4 * PAGE_SIZE, PAGE_SIZE>>, <<6 * PAGE_SIZE, 3 * PAGE_SIZE>> }

\* allocations that stay in the committed prefix, and that leave it
CommitSizes == {16, PAGE_SIZE, 3 * PAGE_SIZE}

NextCommit ==
    \/ \E t \in Solo, x \in CommitArgs : ArenaCreate(t, x[1], x[2])
    \/ \E t \in Solo : ArenaDestroy(t)
    \/ \E t \in Solo, n \in CommitSizes : ArenaAlloc(t, n)
    \/ \E t \in Solo : ArenaAllocAligned(t, "arena_alloc_aligned", 16, 64)
    \/ \E t \in Solo : ArenaReset(t)
    \/ Return

SpecCommit == Init /\ [][NextCommit]_vars

\* the smallest multiple of step that is >= x, in the integers
CeilTo(x, step) == ((x + step - 1) \div step) * step

\* the allocation that has just returned made the committed prefix grow
CommitGrew ==
    /\ allocator # <<>>
    /\ allocator' # <<>>
    /\ allocator'[1].commit_position # allocator[1].commit_position

\* C38: an arena allocation that needs more committed memory moves
\* commit_position to the smallest multiple of commit_size that is >= the
\* new position, or to reserve_size if that is smaller; so commit_position
\* is always a multiple of commit_size or equal to reserve_size.
C38_CommitInSteps ==
    [][ /\ CommitGrew =>
              allocator'[1].commit_position =
                  Least(CeilTo(allocator'[1].position, allocator[1].commit_size),
                        allocator[1].reserve_size)
        /\ allocator' # <<>> =>
              \/ allocator'[1].commit_position % allocator'[1].commit_size = 0
              \/ allocator'[1].commit_position = allocator'[1].reserve_size ]_vars

(* ---- C39 ---- *)
\* the step is a call of arena_reset on an arena
ResetStep == last.fn = "none" /\ last'.fn = "arena_reset" /\ allocator # <<>>

\* the step is an allocation of n = last'.a bytes at alignment last'.b from
\* an arena whose position is the header size, as a reset leaves it, and
\* the slot fits in the committed prefix
AllocAfterReset ==
    /\ last.fn = "none"
    /\ last'.fn \in {"arena_alloc", "arena_alloc_aligned"}
    /\ allocator # <<>>
    /\ allocator[1].position = ARENA_HEADER_SIZE
    /\ last'.a > 0
    /\ align_up(ARENA_HEADER_SIZE, last'.b) + last'.a <= allocator[1].commit_position

\* C39: arena_reset sets position to ARENA_HEADER_SIZE and changes nothing
\* else: commit_position, commit_size and reserve_size stay, and nothing is
\* decommitted; an allocation from the reset arena that fits in the
\* committed prefix succeeds without a new commit and lies at
\* align_up(ARENA_HEADER_SIZE, a) from the arena's base.
C39_ResetKeepsCommit ==
    [][ /\ ResetStep =>
              /\ allocator' = <<[allocator[1] EXCEPT !.position = ARENA_HEADER_SIZE]>>
              /\ maps' = maps
              /\ mem' = mem
        /\ AllocAfterReset =>
              /\ last'.ret = allocator[1].base + align_up(ARENA_HEADER_SIZE, last'.b)
              /\ allocator'[1].position = align_up(ARENA_HEADER_SIZE, last'.b) + last'.a
              /\ allocator'[1].commit_position = allocator[1].commit_position
              /\ maps' = maps
              /\ ~crashed' ]_vars

\* after two allocations that made the committed prefix grow and a reset,
\* an allocation has returned the arena's first slot
C39_Witness ==
    /\ allocator # <<>>
    /\ made >= 3
    /\ last.fn \in {"arena_alloc", "arena_alloc_aligned"}
    /\ last.ret = allocator[1].base + align_up(ARENA_HEADER_SIZE, last.b)
    /\ allocator[1].commit_position > allocator[1].commit_size

====
